---- MODULE Spec2Model ----
(***************************************************************************)
(* Trip-Planner: the Hours-of-Service core of                              *)
(* backend/server/trip_planning/services.py.                               *)
(*                                                                         *)
(*   Planner  calculate_rest_stops       (SpecPlanner, SpecPlannerFair)    *)
(*   Builder  generate_eld_logs_service  (SpecBuilder, SpecBuilderFair)    *)
(*   calculate_odometer on its own       (SpecOdometer)                    *)
(*   update_log_grid on its own          (SpecGrid)                        *)
(*   calculate_rest_stops called again   (SpecPlannerAgain)                *)
(*   TripViewSet.generate_logs of views.py, requested again                *)
(*                                       (SpecGenerateLogs)                *)
(*   TripViewSet.calculate_route of views.py, from the route data on       *)
(*                                       (SpecCalculateRoute)              *)
(*                                                                         *)
(* The Planner computes with Python floats on hours and miles; the model   *)
(* computes with exact rationals <<numerator, denominator>>.  The Builder  *)
(* computes with datetimes; the model counts time in ticks of 1/22 hour,   *)
(* the coarsest unit in which the half hour and the 1000 mi / 55 mph fuel  *)
(* interval (200/11 h) are both whole.                                     *)
(***************************************************************************)
EXTENDS Integers, Sequences, FiniteSets, TLC

----------------------------------------------------------------------------
(* Exact rational arithmetic (the code's float arithmetic on hours/miles). *)

Abs(x) == IF x < 0 THEN -x ELSE x

RECURSIVE GCD(_, _)
GCD(a, b) == IF b = 0 THEN a ELSE GCD(b, a % b)

Rat(n, d) ==
    LET g == GCD(Abs(n), Abs(d))
        s == IF d < 0 THEN -1 ELSE 1
    IN  <<(s * n) \div g, (s * d) \div g>>

R(n) == <<n, 1>>

LCM(a, b) == (a \div GCD(a, b)) * b

RAdd(a, b) ==
    LET l == LCM(a[2], b[2])
    IN  Rat(a[1] * (l \div a[2]) + b[1] * (l \div b[2]), l)

RNeg(a) == <<-a[1], a[2]>>

RSub(a, b) == RAdd(a, RNeg(b))

RMul(a, b) ==
    LET g1 == GCD(Abs(a[1]), b[2])
        g2 == GCD(Abs(b[1]), a[2])
    IN  IF a[1] = 0 \/ b[1] = 0 THEN <<0, 1>>
        ELSE <<(a[1] \div g1) * (b[1] \div g2), (a[2] \div g2) * (b[2] \div g1)>>

RDiv(a, b) == RMul(a, IF b[1] < 0 THEN <<-b[2], -b[1]>> ELSE <<b[2], b[1]>>)

RLt(a, b) ==
    LET l == LCM(a[2], b[2])
    IN  a[1] * (l \div a[2]) < b[1] * (l \div b[2])

RLe(a, b) == a = b \/ RLt(a, b)

RGt(a, b) == RLt(b, a)

RMax(a, b) == IF RLt(a, b) THEN b ELSE a

----------------------------------------------------------------------------
(* Constants for HOS regulations.                                          *)

MAX_DRIVING_TIME == 11
MAX_ON_DUTY_TIME == 14
MAX_CYCLE_TIME == 70
MANDATORY_BREAK_TIME == Rat(1, 2)
MAX_DRIVING_BEFORE_BREAK == 8
FUEL_STOP_DURATION == Rat(1, 2)
MAX_DISTANCE_BEFORE_FUEL == 1000
PICKUP_DROPOFF_TIME == 1
MANDATORY_RESET_BREAK == 10
AVERAGE_SPEED == 55

----------------------------------------------------------------------------
(* Bounds of the Planner's inputs.                                         *)

MaxSegments == 2

\* segment durations (hours) and road speeds (mph) the routes are built from
Durations == {0, 1, 3, 6, 9, 11, 14}
Speeds == {0, 55, 70}
CycleHours == {0, 60, 68}

Segment(dur, speed) == [distance |-> R(dur * speed), duration |-> R(dur)]

SegmentChoices == {Segment(d, s) : d \in Durations, s \in Speeds}

RECURSIVE SeqsUpTo(_, _)
SeqsUpTo(S, n) ==
    IF n = 0 THEN {<<>>}
    ELSE LET shorter == SeqsUpTo(S, n - 1)
         IN  shorter \cup {Append(q, x) : q \in {p \in shorter : Len(p) = n - 1}, x \in S}

\* a single segment of 600 miles driven in 9 hours
ScenarioRoutes == {<<[distance |-> R(600), duration |-> R(9)]>>}

\* the routes, the empty one included
Routes == SeqsUpTo(SegmentChoices, MaxSegments) \cup ScenarioRoutes

----------------------------------------------------------------------------
VARIABLES
    \* ---- calculate_rest_stops ----
    pc,                      \* position in calculate_rest_stops
    segments,                \* route_data['segments']
    current_cycle_hours,     \* argument
    i,                       \* index of the for loop (0-based)
    possible_distance,
    segment_time,
    current_time,            \* in hours after the first call's datetime.now()
    remaining_drive_time,
    remaining_on_duty_time,
    remaining_cycle_time,
    time_since_break,
    distance_since_fuel,
    rest_stops,
    \* ---- history of the simulated drive (not program state) ----
    since_rest,              \* hours driven since the last rest/overnight stop
    since_overnight,         \* hours driven since the last overnight stop
    miles_since_fuel,        \* miles driven along the route since the last fuel stop
    peak_since_rest,         \* largest value since_rest has reached
    peak_since_overnight,
    peak_miles_since_fuel,
    \* ---- generate_eld_logs_service (pc, i, current_time and current_cycle_hours
    \*      are the names of both functions and are shared) ----
    trip_start_time,         \* trip.start_time
    waypoints,               \* the waypoints of the route
    events,
    total_distance,          \* fuel pass: distance since the last inserted fuel stop
    event,                   \* the loop variable of "for i, event in enumerate(events)"
    log_entries,
    daily_logs,
    current_status,
    status_start_time,
    cycle_driving_hours,
    cycle_on_duty_hours,
    driving_since_last_break,
    total_cycle_hours,
    total_break_duration,
    user,                    \* the authenticated user of the call
    raised,                  \* the message of the ValueError raised, "" if none
    \* ---- calculate_odometer ----
    starting_miles,          \* argument starting_odometer
    driving_minutes,         \* argument driving_hours, in minutes
    ending_miles,            \* the value returned, -1 before the call
    \* ---- the callers: the views and the clock ----
    now,                     \* datetime.now() at the call, in hours after the first call
    invocation,              \* the number of the call on the same inputs, from 1
    first_result,            \* what the first call returned
    log_entry_table,         \* the LogEntry records stored for the trip
    daily_log_table,         \* the DailyLog records stored for the trip
    \* ---- update_log_grid called on its own ----
    grid,                    \* log_data
    grid_writes,             \* the calls made so far: start, end, status
    \* ---- TripViewSet.calculate_route ----
    waypoint_table,          \* the Waypoint records stored for the trip's route
    response                 \* the HTTP status of the response, 0 before it

plannerVars == <<pc, segments, current_cycle_hours, i, possible_distance, segment_time,
                 current_time, remaining_drive_time, remaining_on_duty_time,
                 remaining_cycle_time, time_since_break, distance_since_fuel, rest_stops>>

historyVars == <<since_rest, since_overnight, miles_since_fuel,
                 peak_since_rest, peak_since_overnight, peak_miles_since_fuel>>

builderVars == <<trip_start_time, waypoints, events, total_distance, event, log_entries,
                 daily_logs, current_status, status_start_time, cycle_driving_hours,
                 cycle_on_duty_hours, driving_since_last_break, total_cycle_hours,
                 total_break_duration, user, raised>>

gridVars == <<grid, grid_writes>>

\* the helpers that are also called on their own
odometerVars == <<starting_miles, driving_minutes, ending_miles, gridVars>>

\* the Planner's own state and history, untouched by the Builder
plannerOnlyVars == <<segments, possible_distance, segment_time, remaining_drive_time,
                     remaining_on_duty_time, remaining_cycle_time, time_since_break,
                     distance_since_fuel, rest_stops, historyVars>>

routeVars == <<waypoint_table, response>>

callerVars == <<now, invocation, first_result, log_entry_table, daily_log_table, routeVars>>

vars == <<plannerVars, historyVars, builderVars, odometerVars, callerVars>>

\* how often the same call is made
MaxInvocations == 2

\* no call has returned yet
NoResult == [rest_stops |-> <<>>, log_entries |-> <<>>, daily_logs |-> <<>>, raised |-> ""]

\* a first call, nothing stored for the trip yet
CallerIdle ==
    /\ now = 0
    /\ invocation = 1
    /\ first_result = NoResult
    /\ log_entry_table = <<>>
    /\ daily_log_table = <<>>
    /\ waypoint_table = <<>>
    /\ response = 0

\* the Builder's state while only the Planner runs
BuilderIdle ==
    /\ trip_start_time = 0
    /\ waypoints = <<>>
    /\ events = <<>>
    /\ total_distance = 0
    /\ event = <<>>
    /\ log_entries = <<>>
    /\ daily_logs = <<>>
    /\ current_status = "off_duty"
    /\ status_start_time = 0
    /\ cycle_driving_hours = 0
    /\ cycle_on_duty_hours = 0
    /\ driving_since_last_break = 0
    /\ total_cycle_hours = 0
    /\ total_break_duration = 0
    /\ user = ""
    /\ raised = ""

\* calculate_odometer before it is called
OdometerIdle ==
    /\ starting_miles = 0
    /\ driving_minutes = 0
    /\ ending_miles = -1
    /\ grid = <<>>
    /\ grid_writes = <<>>

\* the Planner's state while only the Builder runs
PlannerIdle ==
    /\ segments = <<>>
    /\ possible_distance = R(0)
    /\ segment_time = R(0)
    /\ remaining_drive_time = R(MAX_DRIVING_TIME)
    /\ remaining_on_duty_time = R(MAX_ON_DUTY_TIME)
    /\ remaining_cycle_time = R(MAX_CYCLE_TIME)
    /\ time_since_break = R(0)
    /\ distance_since_fuel = R(0)
    /\ rest_stops = <<>>
    /\ since_rest = R(0)
    /\ since_overnight = R(0)
    /\ miles_since_fuel = R(0)
    /\ peak_since_rest = R(0)
    /\ peak_since_overnight = R(0)
    /\ peak_miles_since_fuel = R(0)

----------------------------------------------------------------------------
(* calculate_rest_stops                                                    *)

segment == segments[i + 1]

\* miles the truck covers in t hours of the current segment
MilesIn(t) == IF segment.duration[1] = 0 THEN R(0)
              ELSE RMul(t, RDiv(segment.distance, segment.duration))

Stop(type, arrival, duration) ==
    [type |-> type, estimated_arrival |-> arrival, duration |-> duration]

\* history bookkeeping of a step that drives t hours and then stops (or not)
Drive(t, resetRest, resetOvernight, resetFuel) ==
    LET r == RAdd(since_rest, t)
        o == RAdd(since_overnight, t)
        f == RAdd(miles_since_fuel, MilesIn(t))
    IN  /\ peak_since_rest' = RMax(peak_since_rest, r)
        /\ peak_since_overnight' = RMax(peak_since_overnight, o)
        /\ peak_miles_since_fuel' = RMax(peak_miles_since_fuel, f)
        /\ since_rest' = IF resetRest THEN R(0) ELSE r
        /\ since_overnight' = IF resetOvernight THEN R(0) ELSE o
        /\ miles_since_fuel' = IF resetFuel THEN R(0) ELSE f

PlannerInit ==
    /\ segments \in Routes
    /\ current_cycle_hours \in CycleHours
    /\ CallerIdle
    /\ pc = "for"
    /\ i = 0
    /\ possible_distance = R(0)
    /\ segment_time = R(0)
    /\ current_time = R(now)
    /\ remaining_drive_time = R(MAX_DRIVING_TIME)
    /\ remaining_on_duty_time = R(MAX_ON_DUTY_TIME)
    /\ remaining_cycle_time = R(MAX_CYCLE_TIME - current_cycle_hours)
    /\ time_since_break = R(0)
    /\ distance_since_fuel = R(0)
    /\ rest_stops = <<>>
    /\ since_rest = R(0)
    /\ since_overnight = R(0)
    /\ miles_since_fuel = R(0)
    /\ peak_since_rest = R(0)
    /\ peak_since_overnight = R(0)
    /\ peak_miles_since_fuel = R(0)
    /\ BuilderIdle
    /\ OdometerIdle

\* for i, segment in enumerate(segments): the pickup hour on the first segment
SegmentStart ==
    /\ pc = "for"
    /\ i < Len(segments)
    /\ pc' = "while"
    /\ IF i = 0
       THEN /\ current_time' = RAdd(current_time, R(PICKUP_DROPOFF_TIME))
            /\ remaining_on_duty_time' = RSub(remaining_on_duty_time, R(PICKUP_DROPOFF_TIME))
            /\ remaining_cycle_time' = RSub(remaining_cycle_time, R(PICKUP_DROPOFF_TIME))
       ELSE UNCHANGED <<current_time, remaining_on_duty_time, remaining_cycle_time>>
    /\ possible_distance' = segment.distance
    /\ segment_time' = segment.duration
    /\ UNCHANGED <<segments, current_cycle_hours, i, remaining_drive_time,
                   time_since_break, distance_since_fuel, rest_stops, historyVars>>
    /\ UNCHANGED <<builderVars, odometerVars, callerVars>>

\* a break test that forgets the driving carried over from earlier steps
RestCondition_NoCarryOver ==
    RGt(segment_time, R(MAX_DRIVING_BEFORE_BREAK))

\* line 132: if time_since_break + segment_time > MAX_DRIVING_BEFORE_BREAK
RestCondition ==
    RGt(RAdd(time_since_break, segment_time), R(MAX_DRIVING_BEFORE_BREAK))

\* a fuel test that counts the whole segment, not what is left of it
FuelCondition_WholeSegment ==
    RGt(RAdd(distance_since_fuel, segment.distance), R(MAX_DISTANCE_BEFORE_FUEL))

\* line 154: elif distance_since_fuel + possible_distance > MAX_DISTANCE_BEFORE_FUEL
FuelCondition ==
    RGt(RAdd(distance_since_fuel, possible_distance), R(MAX_DISTANCE_BEFORE_FUEL))

OvernightCondition ==
    \/ RLt(remaining_on_duty_time, segment_time)
    \/ RLt(remaining_drive_time, segment_time)

\* the fraction of possible_distance driven before the break
RestDistance(drive_time_before_break) ==
    RMul(RDiv(drive_time_before_break, segment.duration), possible_distance)

RestStop ==
    /\ pc = "while"
    /\ RGt(segment_time, R(0))
    /\ RestCondition
    /\ LET drive_time_before_break == RSub(R(MAX_DRIVING_BEFORE_BREAK), time_since_break)
           drive_distance_before_break == RestDistance(drive_time_before_break)
       IN  /\ rest_stops' = Append(rest_stops,
                  Stop("rest", RAdd(current_time, drive_time_before_break),
                       MANDATORY_BREAK_TIME))
           /\ current_time' = RAdd(current_time,
                  RAdd(drive_time_before_break, MANDATORY_BREAK_TIME))
           /\ time_since_break' = R(0)
           /\ remaining_on_duty_time' = RSub(remaining_on_duty_time,
                  RAdd(drive_time_before_break, MANDATORY_BREAK_TIME))
           /\ remaining_cycle_time' = RSub(remaining_cycle_time, drive_time_before_break)
           /\ distance_since_fuel' = RAdd(distance_since_fuel, drive_distance_before_break)
           /\ segment_time' = RSub(segment_time, drive_time_before_break)
           /\ possible_distance' = RSub(possible_distance, drive_distance_before_break)
           /\ Drive(drive_time_before_break, TRUE, FALSE, FALSE)
    /\ UNCHANGED <<pc, segments, current_cycle_hours, i, remaining_drive_time>>
    /\ UNCHANGED <<builderVars, odometerVars, callerVars>>

FuelStop ==
    /\ pc = "while"
    /\ RGt(segment_time, R(0))
    /\ ~RestCondition
    /\ FuelCondition
    /\ IF possible_distance[1] = 0
       THEN \* ZeroDivisionError
            /\ pc' = "error"
            /\ UNCHANGED <<segments, current_cycle_hours, i, possible_distance,
                           segment_time, current_time, remaining_drive_time,
                           remaining_on_duty_time, remaining_cycle_time,
                           time_since_break, distance_since_fuel, rest_stops,
                           historyVars>>
       ELSE LET distance_before_fuel ==
                    RSub(R(MAX_DISTANCE_BEFORE_FUEL), distance_since_fuel)
                time_before_fuel ==
                    RMul(RDiv(distance_before_fuel, possible_distance), segment_time)
            IN  /\ rest_stops' = Append(rest_stops,
                       Stop("fuel", RAdd(current_time, time_before_fuel),
                            FUEL_STOP_DURATION))
                /\ current_time' = RAdd(current_time,
                       RAdd(time_before_fuel, FUEL_STOP_DURATION))
                /\ time_since_break' = RAdd(time_since_break, time_before_fuel)
                /\ remaining_on_duty_time' = RSub(remaining_on_duty_time,
                       RAdd(time_before_fuel, FUEL_STOP_DURATION))
                /\ remaining_cycle_time' = RSub(remaining_cycle_time,
                       RAdd(time_before_fuel, FUEL_STOP_DURATION))
                /\ distance_since_fuel' = R(0)
                /\ segment_time' = RSub(segment_time, time_before_fuel)
                /\ possible_distance' = RSub(possible_distance, distance_before_fuel)
                /\ Drive(time_before_fuel, FALSE, FALSE, TRUE)
                /\ UNCHANGED <<pc, segments, current_cycle_hours, i, remaining_drive_time>>
    /\ UNCHANGED <<builderVars, odometerVars, callerVars>>

OvernightStop ==
    /\ pc = "while"
    /\ RGt(segment_time, R(0))
    /\ ~RestCondition
    /\ ~FuelCondition
    /\ OvernightCondition
    /\ rest_stops' = Append(rest_stops, Stop("overnight", current_time, R(10)))
    /\ current_time' = RAdd(current_time, R(10))
    /\ remaining_drive_time' = R(MAX_DRIVING_TIME)
    /\ remaining_on_duty_time' = R(MAX_ON_DUTY_TIME)
    /\ time_since_break' = R(0)
    /\ Drive(R(0), TRUE, TRUE, FALSE)
    /\ UNCHANGED <<pc, segments, current_cycle_hours, i, possible_distance, segment_time,
                   remaining_cycle_time, distance_since_fuel>>
    /\ UNCHANGED <<builderVars, odometerVars, callerVars>>

CompleteSegment ==
    /\ pc = "while"
    /\ RGt(segment_time, R(0))
    /\ ~RestCondition
    /\ ~FuelCondition
    /\ ~OvernightCondition
    /\ current_time' = RAdd(current_time, segment_time)
    /\ time_since_break' = RAdd(time_since_break, segment_time)
    /\ remaining_drive_time' = RSub(remaining_drive_time, segment_time)
    /\ remaining_on_duty_time' = RSub(remaining_on_duty_time, segment_time)
    /\ remaining_cycle_time' = RSub(remaining_cycle_time, segment_time)
    /\ distance_since_fuel' = RAdd(distance_since_fuel, possible_distance)
    /\ segment_time' = R(0)
    /\ Drive(segment_time, FALSE, FALSE, FALSE)
    /\ UNCHANGED <<pc, segments, current_cycle_hours, i, possible_distance, rest_stops>>
    /\ UNCHANGED <<builderVars, odometerVars, callerVars>>

\* while segment_time > 0 is false: on to the next segment
SegmentDone ==
    /\ pc = "while"
    /\ ~RGt(segment_time, R(0))
    /\ pc' = "for"
    /\ i' = i + 1
    /\ UNCHANGED <<segments, current_cycle_hours, possible_distance, segment_time,
                   current_time, remaining_drive_time, remaining_on_duty_time,
                   remaining_cycle_time, time_since_break, distance_since_fuel,
                   rest_stops, historyVars>>
    /\ UNCHANGED <<builderVars, odometerVars, callerVars>>

\* a return that leaves the dropoff hour out
Return_DropoffUncharged ==
    /\ pc = "for"
    /\ i = Len(segments)
    /\ pc' = "done"
    /\ UNCHANGED <<segments, current_cycle_hours, i, possible_distance, segment_time,
                   current_time, remaining_drive_time, remaining_on_duty_time,
                   remaining_cycle_time, time_since_break, distance_since_fuel,
                   rest_stops, historyVars>>
    /\ UNCHANGED <<builderVars, odometerVars, callerVars>>

\* if segments: the dropoff hour; return rest_stops
Return ==
    /\ pc = "for"
    /\ i = Len(segments)
    /\ pc' = "done"
    /\ IF segments # <<>>
       THEN /\ remaining_on_duty_time' = RSub(remaining_on_duty_time, R(PICKUP_DROPOFF_TIME))
            /\ remaining_cycle_time' = RSub(remaining_cycle_time, R(PICKUP_DROPOFF_TIME))
       ELSE UNCHANGED <<remaining_on_duty_time, remaining_cycle_time>>
    /\ UNCHANGED <<segments, current_cycle_hours, i, possible_distance, segment_time,
                   current_time, remaining_drive_time, time_since_break,
                   distance_since_fuel, rest_stops, historyVars>>
    /\ UNCHANGED <<builderVars, odometerVars, callerVars>>

PlannerNext ==
    \/ SegmentStart
    \/ RestStop
    \/ FuelStop
    \/ OvernightStop
    \/ CompleteSegment
    \/ SegmentDone
    \/ Return

SpecPlanner == PlannerInit /\ [][PlannerNext]_vars

\* the condition under which the while loop takes a branch that drives or stops
InLoop(branch) ==
    /\ pc = "while"
    /\ RGt(segment_time, R(0))
    /\ branch = (IF RestCondition THEN "rest"
                 ELSE IF FuelCondition THEN "fuel"
                 ELSE IF OvernightCondition THEN "overnight"
                 ELSE "complete")

\* the function runs on: a statement that can be executed is executed.  For the
\* four branches of the while loop weak fairness is written out, with the
\* branch's condition for ENABLED <<A>>_vars.
SpecPlannerFair ==
    /\ PlannerInit
    /\ [][PlannerNext]_vars
    /\ WF_vars(SegmentStart)
    /\ WF_vars(SegmentDone)
    /\ WF_vars(Return)
    /\ []<>(~InLoop("rest")) \/ []<><<RestStop>>_vars
    /\ []<>(~InLoop("fuel")) \/ []<><<FuelStop>>_vars
    /\ []<>(~InLoop("overnight")) \/ []<><<OvernightStop>>_vars
    /\ []<>(~InLoop("complete")) \/ []<><<CompleteSegment>>_vars

----------------------------------------------------------------------------
(* calculate_rest_stops called again with the same arguments, later.       *)

\* hours between two calls
WallClockDelays == {1, 24}

\* the next call: line 106 reads the clock again, the other locals start as in
\* lines 107-114
PlannerAgain ==
    /\ pc \in {"done", "error"}
    /\ invocation < MaxInvocations
    /\ invocation' = invocation + 1
    /\ first_result' = IF invocation = 1
                       THEN [NoResult EXCEPT !.rest_stops = rest_stops,
                                             !.raised = IF pc = "error"
                                                        THEN "ZeroDivisionError" ELSE ""]
                       ELSE first_result
    /\ now' \in {now + d : d \in WallClockDelays}
    /\ pc' = "for"
    /\ i' = 0
    /\ possible_distance' = R(0)
    /\ segment_time' = R(0)
    /\ current_time' = R(now')
    /\ remaining_drive_time' = R(MAX_DRIVING_TIME)
    /\ remaining_on_duty_time' = R(MAX_ON_DUTY_TIME)
    /\ remaining_cycle_time' = R(MAX_CYCLE_TIME - current_cycle_hours)
    /\ time_since_break' = R(0)
    /\ distance_since_fuel' = R(0)
    /\ rest_stops' = <<>>
    /\ since_rest' = R(0)
    /\ since_overnight' = R(0)
    /\ miles_since_fuel' = R(0)
    /\ peak_since_rest' = R(0)
    /\ peak_since_overnight' = R(0)
    /\ peak_miles_since_fuel' = R(0)
    /\ UNCHANGED <<segments, current_cycle_hours, builderVars, odometerVars,
                   log_entry_table, daily_log_table, routeVars>>

PlannerAgainNext ==
    \/ PlannerNext
    \/ PlannerAgain

SpecPlannerAgain == PlannerInit /\ [][PlannerAgainNext]_vars

----------------------------------------------------------------------------
(* Properties of calculate_rest_stops.                                     *)

HasStop(type) == \E k \in 1..Len(rest_stops) : rest_stops[k].type = type

\* C1: the driving time accumulated since the last emitted 'rest' or
\* 'overnight' stop (or since the start) never exceeds 8 hours at any point of
\* the simulation, segment boundaries included; the code's counter
\* time_since_break is that driving time.
C1_BreakWithinEightHours ==
    /\ RLe(peak_since_rest, R(MAX_DRIVING_BEFORE_BREAK))
    /\ time_since_break = since_rest

\* a rest stop forced in the second segment by the driving carried over from
\* the first: both segments are shorter than 8 hours
C1_Witness ==
    /\ pc = "done"
    /\ Len(segments) = 2
    /\ RLt(R(0), segments[1].duration)
    /\ RLt(segments[1].duration, R(MAX_DRIVING_BEFORE_BREAK))
    /\ RLt(segments[2].duration, R(MAX_DRIVING_BEFORE_BREAK))
    /\ HasStop("rest")
    /\ peak_since_rest = R(MAX_DRIVING_BEFORE_BREAK)

\* C2: the driving time simulated between two consecutive 'overnight' stops
\* (or before the first, or after the last) never exceeds 11 hours, the
\* driving up to a rest stop and up to a fuel stop counted as driving.
C2_DrivingWithinElevenHours ==
    RLe(peak_since_overnight, R(MAX_DRIVING_TIME))

\* C3: the distance driven along the route between two consecutive 'fuel'
\* stops (or from the start to the first) never exceeds 1000 miles.
C3_FuelWithinThousandMiles ==
    RLe(peak_miles_since_fuel, R(MAX_DISTANCE_BEFORE_FUEL))

\* C4: the on-duty time used since the last 'overnight' stop is at most 14
\* hours: remaining_on_duty_time never becomes negative.
C4_OnDutyWithinFourteenHours ==
    RLe(R(0), remaining_on_duty_time)

\* C5: the cycle hours used are at most 70: remaining_cycle_time never becomes
\* negative without an 'overnight' stop having been emitted first.
C5_CycleWithinSeventyHours ==
    RLt(remaining_cycle_time, R(0)) => HasStop("overnight")

\* C6: the stop list is ordered by time: each stop's estimated_arrival plus its
\* duration is not later than the next stop's estimated_arrival.
C6_StopsTimeOrdered ==
    \A k \in 1..(Len(rest_stops) - 1) :
        RLe(RAdd(rest_stops[k].estimated_arrival, rest_stops[k].duration),
            rest_stops[k + 1].estimated_arrival)


\* the route has a segment that takes time
PositiveDuration == \E k \in 1..Len(segments) : RGt(segments[k].duration, R(0))

\* C13: for the single segment of 600 miles and 9 hours with no cycle hours used
\* the planner returns exactly one stop: a rest stop of 30 minutes reached after
\* 8 hours of driving (which follow the pickup hour); no fuel, no overnight stop.
C13_SingleRestStopScenario ==
    (pc = "done" /\ segments \in ScenarioRoutes /\ current_cycle_hours = 0) =>
        /\ rest_stops = <<Stop("rest",
                               R(PICKUP_DROPOFF_TIME + MAX_DRIVING_BEFORE_BREAK),
                               MANDATORY_BREAK_TIME)>>
        /\ peak_since_rest = R(MAX_DRIVING_BEFORE_BREAK)
        /\ ~HasStop("fuel") /\ ~HasStop("overnight")

C13_Witness ==
    /\ pc = "done"
    /\ segments \in ScenarioRoutes
    /\ current_cycle_hours = 0
    /\ Len(rest_stops) = 1

\* C14: with 68 cycle hours used and a route of positive duration the first stop
\* returned is an overnight stop, placed right after the pickup hour, before any
\* driving.
C14_OvernightBeforeDriving ==
    (pc = "done" /\ current_cycle_hours = 68 /\ PositiveDuration) =>
        /\ rest_stops # <<>>
        /\ rest_stops[1].type = "overnight"
        /\ rest_stops[1].estimated_arrival = R(PICKUP_DROPOFF_TIME)

\* the total distance and the total duration of the route
RECURSIVE RouteTotal(_, _)
RouteTotal(segs, field) ==
    IF segs = <<>> THEN R(0) ELSE RAdd(Head(segs)[field], RouteTotal(Tail(segs), field))

\* no segment, or a total distance of zero with a positive total duration or the
\* other way round
InvalidRoute ==
    \/ segments = <<>>
    \/ RLe(RouteTotal(segments, "distance"), R(0)) /\ RGt(RouteTotal(segments, "duration"), R(0))
    \/ RLe(RouteTotal(segments, "duration"), R(0)) /\ RGt(RouteTotal(segments, "distance"), R(0))

\* C15: called with an empty or malformed route the planner fails: it does not
\* return a stop list.
C15_InvalidRouteRejected ==
    InvalidRoute => pc # "done"


----------------------------------------------------------------------------
(* generate_eld_logs_service: time, days and the daily log sheets.         *)
(* A datetime is a count of ticks since 00:00 of the day the trip starts.  *)

TicksPerHour == 2 * 11

Hours(h) == h * TicksPerHour

HalfHour == TicksPerHour \div 2

TicksPerDay == 24 * TicksPerHour

\* datetime.date()
DateOf(t) == t \div TicksPerDay

\* datetime.combine(current_date + timedelta(days=1), time.min)
NextDay(t) == (DateOf(t) + 1) * TicksPerDay

Min(a, b) == IF a < b THEN a ELSE b

\* time.hour * 60 + time.minute
MinuteOfDay(t) == ((t % TicksPerDay) * 60) \div TicksPerHour

GridSlots == 96

initialize_log_grid == [k \in 1..GridSlots |-> "none"]

\* a grid update that takes the end of a segment on its own clock time, so that
\* midnight is minute 0
update_log_grid_ClockTime(log_data, start_time, end_time, status) ==
    LET start_index == MinuteOfDay(start_time) \div 15
        end_index == MinuteOfDay(end_time) \div 15
    IN  [k \in 1..Len(log_data) |->
            IF start_index <= k - 1 /\ k - 1 < Min(end_index, Len(log_data))
            THEN status ELSE log_data[k]]

\* a grid update that fills the slots whose first minute lies in the interval
update_log_grid_minutes_SlotStartInside(log_data, start_minutes, end_clock_minutes, next_date, status) ==
    LET end_minutes == IF next_date THEN 1440 ELSE end_clock_minutes
    IN  [k \in 1..Len(log_data) |->
            IF start_minutes <= 15 * (k - 1) /\ 15 * (k - 1) < end_minutes
            THEN status ELSE log_data[k]]

\* update_log_grid from its third line on: start_minutes and end_clock_minutes are
\* hour * 60 + minute of the two datetimes, next_date says that their dates differ
update_log_grid_minutes(log_data, start_minutes, end_clock_minutes, next_date, status) ==
    LET end_minutes == IF next_date THEN 1440 ELSE end_clock_minutes
        start_index == start_minutes \div 15
        end_index == end_minutes \div 15
    IN  [k \in 1..Len(log_data) |->
            IF start_index <= k - 1 /\ k - 1 < Min(end_index, Len(log_data))
            THEN status ELSE log_data[k]]

update_log_grid(log_data, start_time, end_time, status) ==
    update_log_grid_minutes(log_data, MinuteOfDay(start_time), MinuteOfDay(end_time),
                            DateOf(start_time) # DateOf(end_time), status)

\* a float of n/d hours; `exact` tells whether the float is n/d itself or a
\* rounded value next to it
Float(n, d, exact) == [n |-> n, d |-> d, exact |-> exact]

\* int(starting_odometer + driving_hours * AVERAGE_SPEED): the values int() can
\* give.  When driving_hours is a rounded float and the exact sum is a whole
\* number of miles, the float sum can fall just short of it, and int() truncates
\* it to the mile below.
calculate_odometer(starting_odometer, driving_hours) ==
    LET n == driving_hours.n
        d == driving_hours.d
        miles == (starting_odometer * d + n * AVERAGE_SPEED) \div d
    IN  IF ~driving_hours.exact /\ (n * AVERAGE_SPEED) % d = 0
        THEN {miles - 1, miles}
        ELSE {miles}

\* a starting odometer taken over from the sheets already stored for the trip
initialize_daily_log_FromStored(current_date, previous_date, logs) ==
    [date |-> current_date,
     starting_odometer |-> IF previous_date \in DOMAIN logs
                           THEN logs[previous_date].ending_odometer
                           ELSE IF daily_log_table # <<>>
                           THEN daily_log_table[Len(daily_log_table)].ending_odometer
                           ELSE 0,
     ending_odometer |-> 0,
     total_driving_hours |-> 0,
     total_on_duty_hours |-> 0,
     total_off_duty_hours |-> 0,
     total_sleeper_berth_hours |-> 0,
     log_data |-> initialize_log_grid]

initialize_daily_log(current_date, previous_date, logs) ==
    [date |-> current_date,
     starting_odometer |-> IF previous_date \in DOMAIN logs
                           THEN logs[previous_date].ending_odometer ELSE 0,
     ending_odometer |-> 0,
     total_driving_hours |-> 0,
     total_on_duty_hours |-> 0,
     total_off_duty_hours |-> 0,
     total_sleeper_berth_hours |-> 0,
     log_data |-> initialize_log_grid]

\* if current_date not in daily_logs: daily_logs[current_date] = initialize_daily_log(...)
WithDailyLog(logs, current_date) ==
    IF current_date \in DOMAIN logs THEN logs
    ELSE logs @@ (current_date :> initialize_daily_log(current_date, current_date - 1, logs))

Entry(start_time, end_time, status) ==
    [start_time |-> start_time, end_time |-> end_time, status |-> status]

----------------------------------------------------------------------------
(* The event list.                                                         *)

Event(type, time, duration) == [type |-> type, time |-> time, duration |-> duration]

EventOf(w) == Event(w.waypoint_type, w.estimated_arrival, w.planned_duration)

\* list.insert(index, x), index counted from 0
InsertAt(s, index, x) ==
    IF index >= Len(s) THEN Append(s, x)
    ELSE SubSeq(s, 1, index) \o <<x>> \o SubSeq(s, index + 1, Len(s))

\* events.sort(key=lambda x: x['time']): a stable sort
RECURSIVE InsertByTime(_, _)
InsertByTime(sorted, x) ==
    IF sorted = <<>> THEN <<x>>
    ELSE IF Head(sorted).time <= x.time
         THEN <<Head(sorted)>> \o InsertByTime(Tail(sorted), x)
         ELSE <<x>> \o sorted

RECURSIVE SortByTime(_)
SortByTime(s) ==
    IF s = <<>> THEN <<>>
    ELSE InsertByTime(SortByTime(SubSeq(s, 1, Len(s) - 1)), s[Len(s)])

\* a query that takes the waypoints of every type
OfType_Unfiltered(wps, types) == wps

\* waypoints.filter(waypoint_type=...), waypoints.filter(waypoint_type__in=[...])
OfType(wps, types) == SelectSeq(wps, LAMBDA w : w.waypoint_type \in types)

\* the events of the planned stops, ordered by arrival (lines 265-272)
StopEvents(wps) ==
    SortByTime([k \in 1..Len(OfType(wps, {"rest", "fuel", "overnight"})) |->
                   EventOf(OfType(wps, {"rest", "fuel", "overnight"})[k])])

\* lines 249-290: pickup, the stops by arrival, dropoff, then sorted by time
BuildEvents(wps) ==
    SortByTime(<<EventOf(Head(OfType(wps, {"pickup"})))>>
               \o StopEvents(wps)
               \o <<EventOf(Head(OfType(wps, {"dropoff"})))>>)

----------------------------------------------------------------------------
(* Bounds of the Builder's inputs: a trip is a pickup, up to MaxStops      *)
(* planned stops and a dropoff, each a driving gap after the one before.   *)

MaxStops == 2

StartHours == {6, 20}
GapHours == {3, 6, 12}
LoggedCycleHours == {0, 66}

StopKinds == {[waypoint_type |-> "rest", planned_duration |-> HalfHour],
              [waypoint_type |-> "fuel", planned_duration |-> HalfHour],
              [waypoint_type |-> "overnight", planned_duration |-> Hours(MANDATORY_RESET_BREAK)]}

\* trip.user and the users a call can come from; route.id and another route's id
TripUser == "driver"
Users == {"driver", "intruder"}
RouteId == "route"
OtherRouteId == "other_route"

Leg(kind, gap) == [kind |-> kind, gap |-> gap]

PickupLegs == {Leg([waypoint_type |-> "pickup", planned_duration |-> Hours(PICKUP_DROPOFF_TIME)],
                   Hours(g)) : g \in GapHours}

DropoffLegs == {Leg([waypoint_type |-> "dropoff", planned_duration |-> Hours(PICKUP_DROPOFF_TIME)],
                    Hours(g)) : g \in GapHours}

StopLegs == {Leg(k, Hours(g)) : k \in StopKinds, g \in GapHours}

\* the waypoints of the legs driven one after the other from time t
RECURSIVE Itinerary(_, _)
Itinerary(t, legs) ==
    IF legs = <<>> THEN <<>>
    ELSE LET leg == Head(legs)
             arrival == t + leg.gap
         IN  <<[waypoint_type |-> leg.kind.waypoint_type,
                estimated_arrival |-> arrival,
                planned_duration |-> leg.kind.planned_duration,
                route_id |-> RouteId]>>
             \o Itinerary(arrival + leg.kind.planned_duration, Tail(legs))

Trip(start, legs) ==
    [start_time |-> Hours(start), waypoints |-> Itinerary(Hours(start), legs)]

\* the trips of the grid of start hours, gaps and stops
GridTrips(maxStops) ==
    {Trip(start, <<p>> \o stops \o <<d>>) :
        start \in StartHours, p \in PickupLegs, d \in DropoffLegs,
        stops \in SeqsUpTo(StopLegs, maxStops)}

\* a drive over midnight that starts at 23:00, and a drive of three days without a
\* planned stop
LateStartHours == {23}
LongGapHours == {72}
ShortNightHours == {8}
LateTrips == {Trip(start, <<p, d>>) : start \in LateStartHours, p \in PickupLegs, d \in DropoffLegs}
LongTrips ==
    {Trip(start, <<p, [d EXCEPT !.gap = Hours(g)]>>) :
        start \in StartHours, p \in PickupLegs, d \in DropoffLegs, g \in LongGapHours}

\* an overnight stop shorter than the 10 hours of a reset
ShortNightTrips ==
    {Trip(start, <<p, Leg([waypoint_type |-> "overnight", planned_duration |-> Hours(n)],
                          Hours(g)), d>>) :
        start \in StartHours, p \in PickupLegs, d \in DropoffLegs,
        n \in ShortNightHours, g \in GapHours}

\* waypoint lists the validation rejects: a pickup or dropoff left out, the last
\* waypoint on another route
Without(wps, types) == SelectSeq(wps, LAMBDA w : w.waypoint_type \notin types)

OnOtherRoute(wps, foreign) ==
    IF foreign /\ wps # <<>> THEN [wps EXCEPT ![Len(wps)].route_id = OtherRouteId] ELSE wps

BuilderInit ==
    /\ pc = "validate"
    /\ i = 0
    /\ current_time = 0
    /\ current_cycle_hours \in LoggedCycleHours
    /\ \/ \E t \in GridTrips(MaxStops) \cup LateTrips \cup LongTrips \cup ShortNightTrips :
            /\ trip_start_time = t.start_time
            /\ waypoints = t.waypoints
            /\ user = TripUser
       \/ \E t \in GridTrips(1), missing \in SUBSET {"pickup", "dropoff"},
             foreign \in BOOLEAN :
            /\ trip_start_time = t.start_time
            /\ waypoints = OnOtherRoute(Without(t.waypoints, missing), foreign)
            /\ user \in Users
    /\ raised = ""
    /\ OdometerIdle
    /\ CallerIdle
    /\ events = <<>>
    /\ total_distance = 0
    /\ event = <<>>
    /\ log_entries = <<>>
    /\ daily_logs = <<>>
    /\ current_status = "off_duty"
    /\ status_start_time = 0
    /\ cycle_driving_hours = 0
    /\ cycle_on_duty_hours = 0
    /\ driving_since_last_break = 0
    /\ total_cycle_hours = 0
    /\ total_break_duration = 0
    /\ PlannerIdle

----------------------------------------------------------------------------
(* generate_eld_logs_service                                               *)

\* the messages of the ValueErrors of lines 229, 234, 256 and 279
UserError == "Trip does not belong to the authenticated user"
RouteError == "Some waypoints do not belong to the trip's route"
PickupError == "No pickup waypoint found for the trip"

DropoffError == "No dropoff waypoint found for the trip"

\* a route test that passes as soon as one waypoint is on the trip's route
AllOnRoute_SomeOnRoute == \E k \in 1..Len(waypoints) : waypoints[k].route_id = RouteId

\* line 232: waypoints.filter(route_id=route.id).count() == waypoints.count()
AllOnRoute ==
    Len(SelectSeq(waypoints, LAMBDA w : w.route_id = RouteId)) = Len(waypoints)

\* lines 226-234: the trip is the user's and every waypoint is on the trip's route
Validate ==
    /\ pc = "validate"
    /\ IF TripUser # user
       THEN /\ raised' = UserError
            /\ pc' = "raised"
       ELSE IF ~AllOnRoute
       THEN /\ raised' = RouteError
            /\ pc' = "raised"
       ELSE /\ raised' = raised
            /\ pc' = "collect"
    /\ UNCHANGED <<trip_start_time, waypoints, current_cycle_hours, i, current_time, events,
                   total_distance, event, log_entries, daily_logs, current_status,
                   status_start_time, cycle_driving_hours, cycle_on_duty_hours,
                   driving_since_last_break, total_cycle_hours, total_break_duration, user>>
    /\ UNCHANGED <<plannerOnlyVars, odometerVars, callerVars>>

\* lines 238-290: the first day's log sheet and the event list
CollectEvents ==
    /\ pc = "collect"
    /\ log_entries' = <<>>
    /\ daily_logs' = (DateOf(trip_start_time) :>
                         initialize_daily_log(DateOf(trip_start_time), -1, <<>>))
    /\ IF OfType(waypoints, {"pickup"}) = <<>>
       THEN /\ raised' = PickupError
            /\ events' = <<>>
            /\ pc' = "raised"
       ELSE IF OfType(waypoints, {"dropoff"}) = <<>>
       THEN /\ raised' = DropoffError
            /\ events' = <<EventOf(Head(OfType(waypoints, {"pickup"})))>>
                          \o StopEvents(waypoints)
            /\ pc' = "raised"
       ELSE /\ raised' = raised
            /\ events' = BuildEvents(waypoints)
            /\ pc' = "fuel_pass"
    /\ total_distance' = 0
    /\ i' = 0
    /\ UNCHANGED <<trip_start_time, waypoints, current_cycle_hours, current_time, event,
                   current_status, status_start_time, cycle_driving_hours,
                   cycle_on_duty_hours, driving_since_last_break, total_cycle_hours,
                   total_break_duration, user>>
    /\ UNCHANGED <<plannerOnlyVars, odometerVars, callerVars>>

\* distances of the fuel pass are counted in half miles: a tick at 55 mph is 2.5 miles
HalfMilesPerTick == (2 * AVERAGE_SPEED) \div TicksPerHour

\* lines 296-319: one pass of "while i < len(events) - 1"
FuelPassStep ==
    /\ pc = "fuel_pass"
    /\ i < Len(events) - 1
    /\ LET start_event == events[i + 1]
           end_event == events[i + 2]
           departure == start_event.time + start_event.duration
           driving_duration == end_event.time - departure
           distance == driving_duration * HalfMilesPerTick
           reached == total_distance + distance
           remaining_distance == 2 * MAX_DISTANCE_BEFORE_FUEL - (reached - distance)
           time_to_fuel == remaining_distance \div HalfMilesPerTick
           fuel_stop_time == departure + time_to_fuel
       IN  IF driving_duration > 0
           THEN IF reached >= 2 * MAX_DISTANCE_BEFORE_FUEL /\ fuel_stop_time < end_event.time
                THEN /\ events' = InsertAt(events, i + 1,
                                           Event("fuel", fuel_stop_time, HalfHour))
                     /\ total_distance' = 0
                     /\ i' = i + 2
                ELSE /\ total_distance' = reached
                     /\ i' = i + 1
                     /\ UNCHANGED events
           ELSE /\ i' = i + 1
                /\ UNCHANGED <<events, total_distance>>
    /\ UNCHANGED <<pc, trip_start_time, waypoints, current_cycle_hours, current_time, event,
                   log_entries, daily_logs, current_status, status_start_time,
                   cycle_driving_hours, cycle_on_duty_hours, driving_since_last_break,
                   total_cycle_hours, total_break_duration>>
    /\ UNCHANGED <<plannerOnlyVars, odometerVars, callerVars, user, raised>>

\* lines 321-332: the re-sort and the start of the status tracking
FuelPassDone ==
    /\ pc = "fuel_pass"
    /\ ~(i < Len(events) - 1)
    /\ events' = SortByTime(events)
    /\ current_status' = "off_duty"
    /\ status_start_time' = trip_start_time
    /\ cycle_driving_hours' = 0
    /\ cycle_on_duty_hours' = 0
    /\ driving_since_last_break' = 0
    /\ total_cycle_hours' = Hours(current_cycle_hours)
    /\ i' = 0
    /\ pc' = "for"
    /\ UNCHANGED <<trip_start_time, waypoints, current_cycle_hours, current_time, event,
                   total_distance, log_entries, daily_logs, total_break_duration>>
    /\ UNCHANGED <<plannerOnlyVars, odometerVars, callerVars, user, raised>>

\* every branch but reset_break logs the time up to the event first
HasGapLoop(ev) == ev.type \in {"pickup", "rest", "fuel", "mandatory_break", "overnight", "dropoff"}

\* the statements between the gap loop and the loop over the event's own interval
BeginStop(ev, status, start) ==
    /\ pc' = "stop"
    /\ current_time' = ev.time
    /\ current_status' = IF ev.type = "pickup" /\ status # "on_duty_not_driving"
                         THEN "on_duty_not_driving" ELSE status
    /\ status_start_time' = IF ev.type = "pickup" /\ status # "on_duty_not_driving"
                            THEN ev.time ELSE start
    /\ total_break_duration' = IF ev.type = "overnight" THEN 0 ELSE total_break_duration

\* the dispatch on event['type'] with current_status = status, status_start_time = start
EnterBranch(ev, status, start) ==
    IF /\ HasGapLoop(ev)
       /\ ev.type = "pickup" => status # "on_duty_not_driving"
       /\ ev.time - start > 0
    THEN /\ pc' = "gap"
         /\ current_time' = start
         /\ current_status' = status
         /\ status_start_time' = start
         /\ UNCHANGED total_break_duration
    ELSE BeginStop(ev, status, start)

\* for i, event in enumerate(events): lines 335-343 and the dispatch
NextEvent ==
    /\ pc = "for"
    /\ i < Len(events)
    /\ LET ev == events[i + 1]
           first_pickup == i = 0 /\ ev.type = "pickup"
       IN  /\ event' = ev
           /\ IF first_pickup /\ ev.time - trip_start_time > 0
              THEN /\ pc' = "initial"
                   /\ current_time' = trip_start_time
                   /\ UNCHANGED <<current_status, status_start_time, total_break_duration>>
              ELSE IF first_pickup
                   THEN EnterBranch(ev, "driving", ev.time)
                   ELSE EnterBranch(ev, current_status, status_start_time)
    /\ UNCHANGED <<trip_start_time, waypoints, current_cycle_hours, i, events,
                   total_distance, log_entries, daily_logs, cycle_driving_hours,
                   cycle_on_duty_hours, driving_since_last_break, total_cycle_hours>>
    /\ UNCHANGED <<plannerOnlyVars, odometerVars, callerVars, user, raised>>

\* end_segment = min(next_day, event['time'])
EndSegment == Min(NextDay(current_time), event.time)

SegmentDuration == EndSegment - current_time

\* the first limit the segment would overrun, in the order the code tests them
Overrun(status) ==
    IF status = "driving"
       /\ cycle_driving_hours + SegmentDuration > Hours(MAX_DRIVING_TIME)
    THEN "driving_limit"
    ELSE IF cycle_on_duty_hours + SegmentDuration > Hours(MAX_ON_DUTY_TIME)
    THEN "on_duty_limit"
    ELSE IF status = "driving"
            /\ driving_since_last_break + SegmentDuration > Hours(MAX_DRIVING_BEFORE_BREAK)
    THEN "break_limit"
    ELSE IF total_cycle_hours + SegmentDuration > Hours(MAX_CYCLE_TIME)
    THEN "cycle_limit"
    ELSE "none"

\* the synthetic event inserted at the overrun point
Synthetic(limit) ==
    CASE limit = "driving_limit" ->
            Event("reset_break",
                  current_time + (Hours(MAX_DRIVING_TIME) - cycle_driving_hours),
                  Hours(MANDATORY_RESET_BREAK))
      [] limit = "on_duty_limit" ->
            Event("reset_break",
                  current_time + (Hours(MAX_ON_DUTY_TIME) - cycle_on_duty_hours),
                  Hours(MANDATORY_RESET_BREAK))
      [] limit = "break_limit" ->
            Event("mandatory_break",
                  current_time + (Hours(MAX_DRIVING_BEFORE_BREAK) - driving_since_last_break),
                  HalfHour)
      [] limit = "cycle_limit" ->
            Event("reset_break",
                  current_time + (Hours(MAX_CYCLE_TIME) - total_cycle_hours),
                  Hours(MANDATORY_RESET_BREAK))

\* events.insert(i + 1, ...); events.sort(key=lambda x: x['time'])
InsertSynthetic(limit) == SortByTime(InsertAt(events, i + 1, Synthetic(limit)))

\* the daily totals and the grid of a logged driving segment
AddDriving(logs, current_date, start_time, end_time, segment_duration) ==
    [logs EXCEPT
        ![current_date].total_driving_hours = @ + segment_duration,
        ![current_date].total_on_duty_hours = @ + segment_duration,
        ![current_date].log_data = update_log_grid(@, start_time, end_time, "driving")]

\* one pass of a "while current_time < event['time']" loop where the time up to
\* the event is logged with `status`: lines 344-446 (status 'driving'), 457-560,
\* 595-698, 731-834 and 904-1007 (status current_status)
TravelSegment(status) ==
    LET current_date == DateOf(current_time)
        logs == WithDailyLog(daily_logs, current_date)
        limit == Overrun(status)
    IN  IF limit # "none"
        THEN \* insert the synthetic event, reset the counters, break
             /\ events' = InsertSynthetic(limit)
             /\ daily_logs' = logs
             /\ cycle_driving_hours' = IF limit = "break_limit" THEN cycle_driving_hours ELSE 0
             /\ cycle_on_duty_hours' = IF limit = "break_limit" THEN cycle_on_duty_hours ELSE 0
             /\ driving_since_last_break' = 0
             /\ total_cycle_hours' = IF limit = "cycle_limit" THEN 0 ELSE total_cycle_hours
             /\ UNCHANGED log_entries
        ELSE /\ log_entries' = Append(log_entries, Entry(current_time, EndSegment, status))
             /\ IF status = "driving"
                THEN /\ daily_logs' = AddDriving(logs, current_date, current_time,
                                                 EndSegment, SegmentDuration)
                     /\ cycle_driving_hours' = cycle_driving_hours + SegmentDuration
                     /\ cycle_on_duty_hours' = cycle_on_duty_hours + SegmentDuration
                     /\ driving_since_last_break' = driving_since_last_break + SegmentDuration
                     /\ total_cycle_hours' = total_cycle_hours + SegmentDuration
                ELSE /\ daily_logs' = logs
                     /\ UNCHANGED <<cycle_driving_hours, cycle_on_duty_hours,
                                    driving_since_last_break, total_cycle_hours>>
             /\ UNCHANGED events

\* a loop that goes on after it has inserted an event
LeavesLoop_NoBreak(status) == ~(EndSegment < event.time)

\* the loop is left by break or because current_time has reached the event
LeavesLoop(status) == Overrun(status) # "none" \/ ~(EndSegment < event.time)

\* lines 344-448: the drive from the trip start to a pickup that is the first event
InitialDrivingStep ==
    /\ pc = "initial"
    /\ current_time < event.time
    /\ TravelSegment("driving")
    /\ IF LeavesLoop("driving")
       THEN EnterBranch(event, "driving", event.time)
       ELSE /\ current_time' = EndSegment
            /\ UNCHANGED <<pc, current_status, status_start_time, total_break_duration>>
    /\ UNCHANGED <<trip_start_time, waypoints, current_cycle_hours, i, total_distance, event>>
    /\ UNCHANGED <<plannerOnlyVars, odometerVars, callerVars, user, raised>>

\* the loop that logs the time from status_start_time up to the event
GapStep ==
    /\ pc = "gap"
    /\ current_time < event.time
    /\ TravelSegment(current_status)
    /\ IF LeavesLoop(current_status)
       THEN BeginStop(event, current_status, status_start_time)
       ELSE /\ current_time' = EndSegment
            /\ UNCHANGED <<pc, current_status, status_start_time, total_break_duration>>
    /\ UNCHANGED <<trip_start_time, waypoints, current_cycle_hours, i, total_distance, event>>
    /\ UNCHANGED <<plannerOnlyVars, odometerVars, callerVars, user, raised>>

\* loading and unloading logged as time off duty
StopStatus_LoadingOffDuty(type) ==
    IF type = "overnight" THEN "sleeper_berth" ELSE "off_duty"

\* the duty status logged for the event's own interval
StopStatus(type) ==
    CASE type \in {"pickup", "dropoff"} -> "on_duty_not_driving"
      [] type \in {"rest", "fuel", "mandatory_break", "reset_break"} -> "off_duty"
      [] type = "overnight" -> "sleeper_berth"

StopEnd == event.time + event.duration

\* the daily total and the grid of a logged segment of the event's interval
AddStop(logs, current_date, start_time, end_time, segment_duration, status) ==
    [logs EXCEPT
        ![current_date].total_on_duty_hours =
            IF status = "on_duty_not_driving" THEN @ + segment_duration ELSE @,
        ![current_date].total_off_duty_hours =
            IF status = "off_duty" THEN @ + segment_duration ELSE @,
        ![current_date].total_sleeper_berth_hours =
            IF status = "sleeper_berth" THEN @ + segment_duration ELSE @,
        ![current_date].log_data = update_log_grid(@, start_time, end_time, status)]

\* one pass of the loop over the event's interval: lines 566-585, 702-718,
\* 839-856, 873-889, 1011-1030
StopStep ==
    /\ pc = "stop"
    /\ current_time < StopEnd
    /\ LET current_date == DateOf(current_time)
           logs == WithDailyLog(daily_logs, current_date)
           end_segment == Min(NextDay(current_time), StopEnd)
           segment_duration == end_segment - current_time
           status == StopStatus(event.type)
       IN  /\ log_entries' = Append(log_entries, Entry(current_time, end_segment, status))
           /\ daily_logs' = AddStop(logs, current_date, current_time, end_segment,
                                    segment_duration, status)
           /\ IF event.type \in {"pickup", "dropoff"}
              THEN /\ cycle_on_duty_hours' = cycle_on_duty_hours + segment_duration
                   /\ total_cycle_hours' = total_cycle_hours + segment_duration
              ELSE UNCHANGED <<cycle_on_duty_hours, total_cycle_hours>>
           /\ total_break_duration' = IF event.type = "overnight"
                                      THEN total_break_duration + segment_duration
                                      ELSE total_break_duration
           /\ current_time' = end_segment
    /\ UNCHANGED <<pc, trip_start_time, waypoints, current_cycle_hours, i, events,
                   total_distance, event, current_status, status_start_time,
                   cycle_driving_hours, driving_since_last_break>>
    /\ UNCHANGED <<plannerOnlyVars, odometerVars, callerVars, user, raised>>

\* a fuel stop that counts as the 30-minute break
ResetsBreakCounter_FuelToo(type) == type \in {"rest", "fuel", "mandatory_break"}

\* lines 720-721: if event['type'] in ['rest', 'mandatory_break']
ResetsBreakCounter(type) == type \in {"rest", "mandatory_break"}

\* an overnight stop that resets the counters whatever its length
ResetsAllCounters_AnyOvernight(type, break_duration) ==
    type \in {"reset_break", "overnight"}

\* lines 859 and 891-894: an overnight stop of at least 10 hours, or a reset break
ResetsAllCounters(type, break_duration) ==
    \/ type = "reset_break"
    \/ /\ type = "overnight"
       /\ break_duration >= Hours(MANDATORY_RESET_BREAK)

\* the statements after the loop over the event's interval, and the next index
EndEvent ==
    /\ pc = "stop"
    /\ ~(current_time < StopEnd)
    /\ LET full_reset == ResetsAllCounters(event.type, total_break_duration)
           break_reset == ResetsBreakCounter(event.type)
       IN  /\ cycle_driving_hours' = IF full_reset THEN 0 ELSE cycle_driving_hours
           /\ cycle_on_duty_hours' = IF full_reset THEN 0 ELSE cycle_on_duty_hours
           /\ total_cycle_hours' = IF full_reset THEN 0 ELSE total_cycle_hours
           /\ driving_since_last_break' =
                  IF full_reset \/ break_reset THEN 0 ELSE driving_since_last_break
    /\ current_status' = IF event.type = "dropoff" THEN "off_duty" ELSE "driving"
    /\ status_start_time' = StopEnd
    /\ i' = i + 1
    /\ pc' = "for"
    /\ UNCHANGED <<trip_start_time, waypoints, current_cycle_hours, current_time, events,
                   total_distance, event, log_entries, daily_logs, total_break_duration>>
    /\ UNCHANGED <<plannerOnlyVars, odometerVars, callerVars, user, raised>>

\* lines 1035-1050: the ending odometers; the dict is returned
\* daily_log['total_driving_hours']: the float sum of the day's driving segments,
\* each a float exact only when it is a whole number of half hours
total_driving_hours(date) ==
    Float(daily_logs[date].total_driving_hours, TicksPerHour,
          \A k \in 1..Len(log_entries) :
              (log_entries[k].status = "driving" /\ DateOf(log_entries[k].start_time) = date)
                  => (log_entries[k].end_time - log_entries[k].start_time) % HalfHour = 0)

\* the driving segments of a date, the addends of its total_driving_hours
DrivingOn(entries, date) ==
    SelectSeq(entries, LAMBDA e : e.status = "driving" /\ DateOf(e.start_time) = date)

\* float arithmetic is deterministic: a call of calculate_odometer whose operands
\* are those of the first invocation returns what it returned then
SameOperands(date) ==
    /\ invocation > 1
    /\ date \in DOMAIN first_result.daily_logs
    /\ first_result.daily_logs[date].starting_odometer = daily_logs[date].starting_odometer
    /\ DrivingOn(first_result.log_entries, date) = DrivingOn(log_entries, date)

Finalize ==
    /\ pc = "for"
    /\ ~(i < Len(events))
    /\ \E ending \in [DOMAIN daily_logs -> {0, 1}] :
          LET miles(d) == calculate_odometer(daily_logs[d].starting_odometer,
                                             total_driving_hours(d))
              odometer(d) == CHOOSE m \in miles(d) :
                                 Cardinality({x \in miles(d) : x > m}) = ending[d]
          IN  /\ \A d \in DOMAIN daily_logs : Cardinality(miles(d)) > ending[d]
              /\ \A d \in DOMAIN daily_logs :
                     SameOperands(d) =>
                         odometer(d) = first_result.daily_logs[d].ending_odometer
              /\ daily_logs' = [d \in DOMAIN daily_logs |->
                                   [daily_logs[d] EXCEPT !.ending_odometer = odometer(d)]]
    /\ pc' = "returned"
    /\ UNCHANGED <<trip_start_time, waypoints, current_cycle_hours, i, current_time,
                   events, total_distance, event, log_entries, current_status,
                   status_start_time, cycle_driving_hours, cycle_on_duty_hours,
                   driving_since_last_break, total_cycle_hours, total_break_duration>>
    /\ UNCHANGED <<plannerOnlyVars, odometerVars, callerVars, user, raised>>

BuilderNext ==
    \/ Validate
    \/ CollectEvents
    \/ FuelPassStep
    \/ FuelPassDone
    \/ NextEvent
    \/ InitialDrivingStep
    \/ GapStep
    \/ StopStep
    \/ EndEvent
    \/ Finalize

SpecBuilder == BuilderInit /\ [][BuilderNext]_vars

\* the service runs in one thread of the request: a statement that can be executed
\* is executed. A step of BuilderNext is possible exactly until the function has
\* returned or raised, so this is weak fairness of BuilderNext written out
SpecBuilderFair ==
    /\ BuilderInit
    /\ [][BuilderNext]_vars
    /\ []<>(pc \in {"returned", "raised"}) \/ []<><<BuilderNext>>_vars

----------------------------------------------------------------------------
(* TripViewSet.generate_logs: the Builder is called on the trip's route    *)
(* and waypoints, and what it returns is saved.  The request can be made   *)
(* again for the same, unchanged trip.                                     *)

MaxStoredStops == 1

\* get_object() finds only trips of the requesting user, and the waypoints are
\* those of the trip's route; the route may lack its pickup or its dropoff
GenerateLogsInit ==
    /\ pc = "request"
    /\ i = 0
    /\ current_time = 0
    /\ current_cycle_hours \in LoggedCycleHours
    /\ \E t \in GridTrips(MaxStoredStops) \cup LateTrips \cup LongTrips,
          missing \in SUBSET {"pickup", "dropoff"} :
            /\ trip_start_time = t.start_time
            /\ waypoints = Without(t.waypoints, missing)
    /\ user = TripUser
    /\ raised = ""
    /\ OdometerIdle
    /\ CallerIdle
    /\ events = <<>>
    /\ total_distance = 0
    /\ event = <<>>
    /\ log_entries = <<>>
    /\ daily_logs = <<>>
    /\ current_status = "off_duty"
    /\ status_start_time = 0
    /\ cycle_driving_hours = 0
    /\ cycle_on_duty_hours = 0
    /\ driving_since_last_break = 0
    /\ total_cycle_hours = 0
    /\ total_break_duration = 0
    /\ PlannerIdle

\* views.py lines 224-254: no waypoints is a 400, otherwise the Builder is called
GenerateLogsRequest ==
    /\ pc = "request"
    /\ pc' = IF waypoints = <<>> THEN "bad_request" ELSE "validate"
    /\ UNCHANGED <<i, current_time, current_cycle_hours, plannerOnlyVars, builderVars,
                   odometerVars, callerVars>>

\* 'daily_logs': daily_logs_list, the sheets in the order of their dates
RECURSIVE daily_logs_list(_)
daily_logs_list(logs) ==
    IF DOMAIN logs = {} THEN <<>>
    ELSE LET date == CHOOSE d \in DOMAIN logs : \A e \in DOMAIN logs : d <= e
         IN  <<logs[date]>> \o daily_logs_list([d \in DOMAIN logs \ {date} |-> logs[d]])

\* views.py lines 260-291: LogEntry.objects.create and DailyLog.objects.create for
\* every entry and every sheet returned
SaveLogs ==
    /\ pc = "returned"
    /\ log_entry_table' = log_entry_table \o log_entries
    /\ daily_log_table' = daily_log_table \o daily_logs_list(daily_logs)
    /\ pc' = "saved"
    /\ UNCHANGED <<i, current_time, current_cycle_hours, plannerOnlyVars, builderVars,
                   odometerVars, now, invocation, first_result, routeVars>>

\* the same request once more, after a response (200, 400 or 500); the Builder's
\* locals are those of a new call
GenerateLogsAgain ==
    /\ pc \in {"saved", "raised", "bad_request"}
    /\ invocation < MaxInvocations
    /\ invocation' = invocation + 1
    /\ first_result' = IF invocation = 1
                       THEN [NoResult EXCEPT !.log_entries = log_entries,
                                             !.daily_logs = daily_logs,
                                             !.raised = raised]
                       ELSE first_result
    /\ pc' = "request"
    /\ i' = 0
    /\ current_time' = 0
    /\ raised' = ""
    /\ events' = <<>>
    /\ total_distance' = 0
    /\ event' = <<>>
    /\ log_entries' = <<>>
    /\ daily_logs' = <<>>
    /\ current_status' = "off_duty"
    /\ status_start_time' = 0
    /\ cycle_driving_hours' = 0
    /\ cycle_on_duty_hours' = 0
    /\ driving_since_last_break' = 0
    /\ total_cycle_hours' = 0
    /\ total_break_duration' = 0
    /\ UNCHANGED <<trip_start_time, waypoints, current_cycle_hours, user, plannerOnlyVars,
                   odometerVars, now, log_entry_table, daily_log_table, routeVars>>

GenerateLogsNext ==
    \/ GenerateLogsRequest
    \/ BuilderNext
    \/ SaveLogs
    \/ GenerateLogsAgain

SpecGenerateLogs == GenerateLogsInit /\ [][GenerateLogsNext]_vars

----------------------------------------------------------------------------
(* TripViewSet.calculate_route, once the route data has been obtained.     *)

\* the parameters of calculate_rest_stops, and the keywords calculate_route calls
\* it with
AcceptedKeywords == {"route_data", "current_cycle_hours"}
PassedKeywords == {"route_data", "current_cycle_hours", "trip_start_time"}

\* a call with a keyword the function has no parameter for raises TypeError
CallRaises == ~(PassedKeywords \subseteq AcceptedKeywords)

\* the routes of the route service, and the waypoints stored for the trip's route
\* before the request: none, or a pickup and a dropoff
ServiceRoutes == SeqsUpTo(SegmentChoices, 1) \cup ScenarioRoutes
StoredWaypoints == {<<>>} \cup {t.waypoints : t \in LateTrips}

CalculateRouteInit ==
    /\ pc = "calculate_route"
    /\ segments \in ServiceRoutes
    /\ current_cycle_hours \in CycleHours
    /\ waypoint_table \in StoredWaypoints
    /\ response = 0
    /\ now = 0
    /\ invocation = 1
    /\ first_result = NoResult
    /\ log_entry_table = <<>>
    /\ daily_log_table = <<>>
    /\ i = 0
    /\ current_time = R(now)
    /\ possible_distance = R(0)
    /\ segment_time = R(0)
    /\ remaining_drive_time = R(MAX_DRIVING_TIME)
    /\ remaining_on_duty_time = R(MAX_ON_DUTY_TIME)
    /\ remaining_cycle_time = R(MAX_CYCLE_TIME)
    /\ time_since_break = R(0)
    /\ distance_since_fuel = R(0)
    /\ rest_stops = <<>>
    /\ since_rest = R(0)
    /\ since_overnight = R(0)
    /\ miles_since_fuel = R(0)
    /\ peak_since_rest = R(0)
    /\ peak_since_overnight = R(0)
    /\ peak_miles_since_fuel = R(0)
    /\ BuilderIdle
    /\ OdometerIdle

\* views.py lines 123-147 and 216-221: the route is saved, its waypoints are
\* deleted and calculate_rest_stops is called; the exception of the call is caught
\* and answered with a 500.  A call that did not raise would go on in
\* calculate_rest_stops
CalculateRoute ==
    /\ pc = "calculate_route"
    /\ waypoint_table' = <<>>
    /\ IF CallRaises
       THEN /\ response' = 500
            /\ pc' = "responded"
            /\ UNCHANGED remaining_cycle_time
       ELSE /\ response' = response
            /\ pc' = "for"
            /\ remaining_cycle_time' = R(MAX_CYCLE_TIME - current_cycle_hours)
    /\ UNCHANGED <<segments, current_cycle_hours, i, possible_distance, segment_time,
                   current_time, remaining_drive_time, remaining_on_duty_time,
                   time_since_break, distance_since_fuel, rest_stops, historyVars,
                   builderVars, odometerVars, now, invocation, first_result,
                   log_entry_table, daily_log_table>>

CalculateRouteNext == CalculateRoute

SpecCalculateRoute == CalculateRouteInit /\ [][CalculateRouteNext]_vars

----------------------------------------------------------------------------
(* calculate_odometer on its own, for driving times in whole minutes.      *)

MaxDrivingMinutes == 90

StartingMiles == {0, 165, 1000}

OdometerInit ==
    /\ pc = "odometer"
    /\ starting_miles \in StartingMiles
    /\ driving_minutes \in 0..MaxDrivingMinutes
    /\ ending_miles = -1
    /\ grid = <<>>
    /\ grid_writes = <<>>
    /\ i = 0
    /\ current_time = 0
    /\ current_cycle_hours = 0
    /\ PlannerIdle
    /\ BuilderIdle
    /\ CallerIdle

\* ending_odometer = calculate_odometer(starting_odometer, driving_hours)
OdometerCall ==
    /\ pc = "odometer"
    /\ ending_miles' \in calculate_odometer(starting_miles,
                                             Float(driving_minutes, 60, driving_minutes % 15 = 0))
    /\ pc' = "odometer_done"
    /\ UNCHANGED <<starting_miles, driving_minutes, i, current_time, current_cycle_hours,
                   gridVars, plannerOnlyVars, builderVars, callerVars>>

OdometerNext == OdometerCall

SpecOdometer == OdometerInit /\ [][OdometerNext]_vars

----------------------------------------------------------------------------
(* update_log_grid on its own, for intervals of whole minutes within a day. *)

MaxGridCalls == 2

\* minutes of the day on and off the quarter hours; an interval may also end at
\* 00:00 of the next date
GridMinutes == {0, 10, 15, 20, 30, 1430}
GridStatuses == {"driving", "off_duty"}

\* the datetimes of an interval within one day: hour * 60 + minute of its start and
\* of its end, and whether the end is 00:00 of the next date
GridIntervals ==
    {[start |-> p[1], end |-> p[2], next_date |-> FALSE] :
        p \in {q \in GridMinutes \X GridMinutes : q[1] <= q[2]}}
    \cup {[start |-> s, end |-> 0, next_date |-> TRUE] : s \in GridMinutes}

GridInit ==
    /\ pc = "grid"
    /\ grid = initialize_log_grid
    /\ grid_writes = <<>>
    /\ starting_miles = 0
    /\ driving_minutes = 0
    /\ ending_miles = -1
    /\ i = 0
    /\ current_time = 0
    /\ current_cycle_hours = 0
    /\ PlannerIdle
    /\ BuilderIdle
    /\ CallerIdle

\* update_log_grid(log_data, start_time, end_time, status)
GridCall ==
    /\ pc = "grid"
    /\ Len(grid_writes) < MaxGridCalls
    /\ \E interval \in GridIntervals, status \in GridStatuses :
          /\ grid' = update_log_grid_minutes(grid, interval.start, interval.end,
                                             interval.next_date, status)
          /\ grid_writes' = Append(grid_writes, [interval |-> interval, status |-> status])
    /\ UNCHANGED <<pc, starting_miles, driving_minutes, ending_miles, i, current_time,
                   current_cycle_hours, plannerOnlyVars, builderVars, callerVars>>

GridNext == GridCall

SpecGrid == GridInit /\ [][GridNext]_vars

----------------------------------------------------------------------------
(* Properties of generate_eld_logs_service.                                *)

\* the returned log_entries ordered by start_time
RECURSIVE InsertByStart(_, _)
InsertByStart(sorted, e) ==
    IF sorted = <<>> THEN <<e>>
    ELSE IF Head(sorted).start_time <= e.start_time
         THEN <<Head(sorted)>> \o InsertByStart(Tail(sorted), e)
         ELSE <<e>> \o sorted

RECURSIVE SortByStart(_)
SortByStart(s) ==
    IF s = <<>> THEN <<>>
    ELSE InsertByStart(SortByStart(SubSeq(s, 1, Len(s) - 1)), s[Len(s)])

\* the end of the dropoff activity
DropoffEnd ==
    LET w == Head(OfType(waypoints, {"dropoff"}))
    IN  w.estimated_arrival + w.planned_duration

\* the summed duration of the log entries of a date with a status among `statuses`
RECURSIVE LoggedTime(_, _, _)
LoggedTime(entries, date, statuses) ==
    IF entries = <<>> THEN 0
    ELSE (IF DateOf(Head(entries).start_time) = date /\ Head(entries).status \in statuses
          THEN Head(entries).end_time - Head(entries).start_time ELSE 0)
         + LoggedTime(Tail(entries), date, statuses)

\* C7: the returned log entries have no gap: ordered by start_time, each
\* entry's end_time is the next entry's start_time, the first starts at the
\* trip start and the last ends at the end of the dropoff activity.
C7_LogEntriesContiguous ==
    pc = "returned" =>
        LET s == SortByStart(log_entries)
        IN  /\ s # <<>>
            /\ s[1].start_time = trip_start_time
            /\ s[Len(s)].end_time = DropoffEnd
            /\ \A k \in 1..(Len(s) - 1) : s[k].end_time = s[k + 1].start_time

\* C8: no two returned log entries overlap in time: no interval is logged twice.
C8_LogEntriesDisjoint ==
    \A j, k \in 1..Len(log_entries) :
        j < k => \/ log_entries[j].end_time <= log_entries[k].start_time
                 \/ log_entries[k].end_time <= log_entries[j].start_time

\* C9: for every date and each of the four statuses, the daily log's total for
\* the status is the summed duration of that date's log entries of the status.
C9_DailyTotalsMatchEntries ==
    pc = "returned" =>
        \A d \in DOMAIN daily_logs :
            /\ daily_logs[d].total_driving_hours = LoggedTime(log_entries, d, {"driving"})
            /\ daily_logs[d].total_on_duty_hours =
                   LoggedTime(log_entries, d, {"on_duty_not_driving"})
            /\ daily_logs[d].total_off_duty_hours = LoggedTime(log_entries, d, {"off_duty"})
            /\ daily_logs[d].total_sleeper_berth_hours =
                   LoggedTime(log_entries, d, {"sleeper_berth"})

\* C10: for every returned daily log the four totals sum to at most 24 hours.
C10_DailyTotalsWithinDay ==
    pc = "returned" =>
        \A d \in DOMAIN daily_logs :
            daily_logs[d].total_driving_hours + daily_logs[d].total_on_duty_hours
            + daily_logs[d].total_off_duty_hours + daily_logs[d].total_sleeper_berth_hours
                <= Hours(24)

\* the sum of the four totals of all the daily logs
RECURSIVE AllTotals(_, _)
AllTotals(logs, dates) ==
    IF dates = {} THEN 0
    ELSE LET d == CHOOSE x \in dates : TRUE
         IN  logs[d].total_driving_hours + logs[d].total_on_duty_hours
             + logs[d].total_off_duty_hours + logs[d].total_sleeper_berth_hours
             + AllTotals(logs, dates \ {d})

\* C11: the four category totals summed over all the returned daily logs equal
\* the time elapsed from the trip start to the end of the dropoff activity.
C11_TotalsEqualElapsedTime ==
    pc = "returned" =>
        AllTotals(daily_logs, DOMAIN daily_logs) = DropoffEnd - trip_start_time

\* the grid slots (numbered from 0) that hold a status
SlotsSet(log_data) == {k \in 0..(Len(log_data) - 1) : log_data[k + 1] # "none"}

\* the trip starts at 23:00 and the pickup is 3 hours of driving away
StartsLateScenario ==
    /\ raised = ""
    /\ trip_start_time = Hours(23)
    /\ waypoints # <<>>
    /\ waypoints[1].waypoint_type = "pickup"
    /\ waypoints[1].estimated_arrival = Hours(23 + 3)

\* the entries logged for the time before the pickup
BeforePickup == SelectSeq(log_entries, LAMBDA e : e.start_time < Hours(23 + 3))

\* C12: the 3 hours of driving that start at 23:00 are logged as exactly two
\* entries, 23:00-24:00 on the first date and 00:00-02:00 on the next, each added
\* to its own date's daily log; the grid of the first day has exactly the slots
\* 92..95 set and the second entry sets exactly the slots 0..7 of the second day.
C12_DayBoundarySplit ==
    StartsLateScenario =>
        LET first == Entry(Hours(23), Hours(24), "driving")
            second == Entry(Hours(24), Hours(24 + 2), "driving")
        IN  /\ BeforePickup \in {<<>>, <<first>>, <<first, second>>}
            /\ pc \in {"gap", "stop", "returned"} => BeforePickup = <<first, second>>
            /\ BeforePickup # <<>> =>
                   /\ SlotsSet(daily_logs[0].log_data) = 92..95
                   /\ \A k \in 92..95 : daily_logs[0].log_data[k + 1] = "driving"
                   /\ daily_logs[0].total_driving_hours = Hours(1)
            /\ Len(BeforePickup) = 2 =>
                   /\ 1 \in DOMAIN daily_logs
                   /\ \A k \in 0..7 : daily_logs[1].log_data[k + 1] = "driving"
                   /\ daily_logs[1].total_driving_hours >= Hours(2)
            /\ log_entries = <<first, second>> =>
                   /\ SlotsSet(daily_logs[1].log_data) = 0..7
                   /\ daily_logs[1].total_driving_hours = Hours(2)

C12_Witness ==
    /\ StartsLateScenario
    /\ pc = "returned"
    /\ Len(BeforePickup) = 2
    /\ DOMAIN daily_logs = {0, 1}

\* the waypoint list has no pickup or no dropoff
MissingPickup == \A k \in 1..Len(waypoints) : waypoints[k].waypoint_type # "pickup"
MissingDropoff == \A k \in 1..Len(waypoints) : waypoints[k].waypoint_type # "dropoff"

\* a waypoint belongs to another route
CrossTripWaypoint == \E k \in 1..Len(waypoints) : waypoints[k].route_id # RouteId

\* C16: without a pickup or without a dropoff waypoint the call never gets past
\* the building of the event list: it logs nothing and returns nothing, whatever
\* other waypoints there are; it ends with a ValueError, which is the
\* missing-waypoint error of the waypoint that is missing (the pickup first)
\* when the checks made before it, of the user and of the route, have passed.
C16_MissingWaypointRejected ==
    (MissingPickup \/ MissingDropoff) =>
        /\ pc \in {"validate", "collect", "raised"}
        /\ log_entries = <<>>
        /\ pc = "raised" => raised \in {UserError, RouteError, PickupError, DropoffError}
        /\ (pc = "raised" /\ user = TripUser /\ ~CrossTripWaypoint) =>
               raised = IF MissingPickup THEN PickupError ELSE DropoffError

\* a call with a pickup and a planned stop but no dropoff has raised the error
C16_Witness ==
    /\ pc = "raised"
    /\ raised = DropoffError
    /\ ~MissingPickup
    /\ Len(waypoints) = 2

\* C17: with a waypoint of another route the call fails before any waypoint is
\* turned into an event and returns nothing; the error is the cross-trip error,
\* also when the pickup or the dropoff is missing, unless the check of the user,
\* which comes first, has failed.
C17_CrossTripRejected ==
    CrossTripWaypoint =>
        /\ pc \in {"validate", "raised"}
        /\ events = <<>>
        /\ log_entries = <<>>
        /\ daily_logs = <<>>
        /\ pc = "raised" => raised = IF user = TripUser THEN RouteError ELSE UserError

\* a call without a pickup and with a waypoint of another route has raised the
\* cross-trip error
C17_Witness ==
    /\ pc = "raised"
    /\ raised = RouteError
    /\ MissingPickup
    /\ CrossTripWaypoint

\* the earlier dates of the returned daily logs
EarlierDates(d) == {e \in DOMAIN daily_logs : e < d}

\* C18: in the returned daily logs the first day's starting_odometer is 0 and
\* every later day's starting_odometer is the ending_odometer of the day before
\* it, so that the odometer never decreases from a day to the next.
C18_OdometerCarriedOver ==
    pc = "returned" =>
        \A d \in DOMAIN daily_logs :
            /\ daily_logs[d].starting_odometer <= daily_logs[d].ending_odometer
            /\ IF EarlierDates(d) = {}
               THEN daily_logs[d].starting_odometer = 0
               ELSE LET before == CHOOSE e \in EarlierDates(d) :
                                      \A x \in EarlierDates(d) : x <= e
                    IN  daily_logs[d].starting_odometer = daily_logs[before].ending_odometer

\* C19: the ending odometer is the starting odometer plus the driving hours
\* times 55 mph, rounded to the nearest mile: it is at most half a mile away
\* from the exact sum.
C19_OdometerRoundedToNearest ==
    pc = "odometer_done" =>
        LET exact60 == starting_miles * 60 + driving_minutes * AVERAGE_SPEED
        IN  2 * Abs(ending_miles * 60 - exact60) <= 60

\* the calendar dates from the trip start to the end of the dropoff activity (a
\* dropoff that ends at midnight does not reach into the next date)
SpannedDates == DateOf(trip_start_time)..DateOf(DropoffEnd - 1)

\* C20: the dates of the returned daily logs are exactly the calendar dates
\* from the trip start to the end of the dropoff activity.
C20_DatesExactlySpanned ==
    pc = "returned" => DOMAIN daily_logs = SpannedDates

----------------------------------------------------------------------------
(* Repeated requests for the logs of the same, unchanged trip.             *)

C23_StoredRecordsReplaced ==
    pc = "saved" =>
        /\ log_entry_table = log_entries
        /\ daily_log_table = daily_logs_list(daily_logs)

\* C22: the stop list of calculate_rest_stops, arrival times included, depends on
\* the route segments, the cycle hours used and the trip start only: called again
\* with the same arguments at another wall-clock time it returns the same list
C22_PlannerIndependentOfClock ==
    (invocation > 1 /\ pc = "done") => rest_stops = first_result.rest_stops

----------------------------------------------------------------------------
(* The events of the Builder and what each leaves in the log.              *)

\* the events inserted where a driving gap would overrun a limit
SyntheticEvents ==
    {events[k] : k \in {j \in 1..Len(events) :
                            events[j].type \in {"reset_break", "mandatory_break"}}}

\* C24: where a driving gap would overrun a limit, the returned log has the driving
\* up to the overrun point and then a non-driving interval of the synthetic
\* event's duration (up to midnight at most in one entry) that starts there
C24_OverrunLogged ==
    pc = "returned" =>
        \A e \in SyntheticEvents :
            /\ \E k \in 1..Len(log_entries) :
                  /\ log_entries[k].status = "driving"
                  /\ log_entries[k].end_time = e.time
            /\ \E k \in 1..Len(log_entries) :
                  /\ log_entries[k].status # "driving"
                  /\ log_entries[k].start_time = e.time
                  /\ log_entries[k].end_time = Min(e.time + e.duration, NextDay(e.time))

\* the entries from the k-th on keep the limits, given the driving logged since
\* the last rest of 10 hours (since_reset) and since the last non-driving
\* interval of half an hour (since_break), and the length of the run of rest
\* entries (resting) and of non-driving entries (pausing) that ends before k
RECURSIVE DrivingCompliant(_, _, _, _, _, _)
DrivingCompliant(entries, k, since_reset, since_break, resting, pausing) ==
    IF k > Len(entries) THEN TRUE
    ELSE LET e == entries[k]
             length == e.end_time - e.start_time
         IN  IF e.status = "driving"
             THEN /\ since_reset + length <= Hours(MAX_DRIVING_TIME)
                  /\ since_break + length <= Hours(MAX_DRIVING_BEFORE_BREAK)
                  /\ DrivingCompliant(entries, k + 1, since_reset + length,
                                      since_break + length, 0, 0)
             ELSE LET rest == IF e.status \in {"off_duty", "sleeper_berth"}
                              THEN resting + length ELSE 0
                      pause == pausing + length
                  IN  DrivingCompliant(entries, k + 1,
                                       IF rest >= Hours(MANDATORY_RESET_BREAK)
                                       THEN 0 ELSE since_reset,
                                       IF pause >= HalfHour THEN 0 ELSE since_break,
                                       rest, pause)

\* C25: in the returned log_entries the driving between two logged rests of at
\* least 10 hours is at most 11 hours, and the driving without a logged
\* non-driving interval of at least 30 minutes is at most 8 hours
C25_LoggedDrivingCompliant ==
    pc = "returned" => DrivingCompliant(log_entries, 1, 0, 0, 0, 0)

\* the arrival at the pickup
PickupTime == Head(OfType(waypoints, {"pickup"})).estimated_arrival

\* C26: the time between the trip start and the pickup is logged off_duty when it
\* is shorter than 10 hours and sleeper_berth when it is 10 hours or longer
C26_StartToPickupResting ==
    (pc = "returned" /\ PickupTime > trip_start_time) =>
        LET status == IF PickupTime - trip_start_time >= Hours(MANDATORY_RESET_BREAK)
                      THEN "sleeper_berth" ELSE "off_duty"
        IN  /\ \E k \in 1..Len(log_entries) :
                  /\ log_entries[k].start_time = trip_start_time
                  /\ log_entries[k].status = status
            /\ \A k \in 1..Len(log_entries) :
                  log_entries[k].start_time < PickupTime => log_entries[k].status = status

\* the log ends with entries of `status` that cover the interval of ev, one
\* starting where the one before ends
EndsWithInterval(ev, status) ==
    \E k \in 1..Len(log_entries) :
        /\ log_entries[k].start_time = ev.time
        /\ log_entries[Len(log_entries)].end_time = ev.time + ev.duration
        /\ \A j \in k..Len(log_entries) :
              /\ log_entries[j].status = status
              /\ j < Len(log_entries) =>
                     log_entries[j].end_time = log_entries[j + 1].start_time

\* the branch of an event of one of the types has just been left
JustProcessed(types) ==
    /\ pc = "for"
    /\ i > 0
    /\ event.type \in types

\* the arrival at the dropoff
DropoffTime == Head(OfType(waypoints, {"dropoff"})).estimated_arrival

C28_BreakStopFrame ==
    [][(pc = "stop" /\ event.type \in {"rest", "fuel", "mandatory_break"}) =>
          /\ cycle_driving_hours' = cycle_driving_hours
          /\ cycle_on_duty_hours' = cycle_on_duty_hours
          /\ total_cycle_hours' = total_cycle_hours
          /\ driving_since_last_break' =
                 IF pc' = "for" /\ event.type \in {"rest", "mandatory_break"}
                 THEN 0 ELSE driving_since_last_break
          /\ log_entries' # log_entries =>
                 /\ Len(log_entries') = Len(log_entries) + 1
                 /\ SubSeq(log_entries', 1, Len(log_entries)) = log_entries
                 /\ log_entries'[Len(log_entries')].status = "off_duty"
          /\ pc' = "for" =>
                 /\ EndsWithInterval(event, "off_duty")
                 /\ current_status' = "driving"
                 /\ status_start_time' = event.time + event.duration]_vars

\* a fuel stop has been logged and has left the non-zero counters as they were
C28_Witness ==
    /\ JustProcessed({"fuel"})
    /\ EndsWithInterval(event, "off_duty")
    /\ current_status = "driving"
    /\ driving_since_last_break > 0
    /\ cycle_driving_hours > 0
    /\ total_cycle_hours > cycle_on_duty_hours

\* C29: while an 'overnight' event is logged only sleeper_berth entries are
\* appended and the four counters keep their values; when the branch is left the
\* entries cover the event's duration, the status is 'driving' from the event's
\* end, and cycle_driving_hours, cycle_on_duty_hours, driving_since_last_break
\* and total_cycle_hours are all 0 if the stop lasted 10 hours or more and all
\* unchanged if it was shorter
C29_OvernightStopFrame ==
    [][(pc = "stop" /\ event.type = "overnight") =>
          LET reset == pc' = "for" /\ event.duration >= Hours(MANDATORY_RESET_BREAK)
          IN  /\ cycle_driving_hours' = IF reset THEN 0 ELSE cycle_driving_hours
              /\ cycle_on_duty_hours' = IF reset THEN 0 ELSE cycle_on_duty_hours
              /\ driving_since_last_break' = IF reset THEN 0 ELSE driving_since_last_break
              /\ total_cycle_hours' = IF reset THEN 0 ELSE total_cycle_hours
              /\ log_entries' # log_entries =>
                     /\ Len(log_entries') = Len(log_entries) + 1
                     /\ SubSeq(log_entries', 1, Len(log_entries)) = log_entries
                     /\ log_entries'[Len(log_entries')].status = "sleeper_berth"
              /\ pc' = "for" =>
                     /\ EndsWithInterval(event, "sleeper_berth")
                     /\ current_status' = "driving"
                     /\ status_start_time' = event.time + event.duration]_vars

\* an overnight stop of less than 10 hours has been logged and has left the
\* non-zero counters as they were
C29_Witness ==
    /\ JustProcessed({"overnight"})
    /\ event.duration < Hours(MANDATORY_RESET_BREAK)
    /\ EndsWithInterval(event, "sleeper_berth")
    /\ current_status = "driving"
    /\ cycle_driving_hours > 0
    /\ driving_since_last_break > 0
    /\ total_cycle_hours > 0

----------------------------------------------------------------------------
(* The Planner's overnight stop.                                           *)

\* C30: the step of calculate_rest_stops that emits an 'overnight' stop leaves
\* 11 hours of driving, 14 hours on duty and 70 hours of the cycle, and no time
\* since the last break
C30_OvernightRestoresAll ==
    [][(/\ Len(rest_stops') = Len(rest_stops) + 1
        /\ rest_stops'[Len(rest_stops')].type = "overnight") =>
          /\ remaining_drive_time' = R(MAX_DRIVING_TIME)
          /\ remaining_on_duty_time' = R(MAX_ON_DUTY_TIME)
          /\ time_since_break' = R(0)
          /\ remaining_cycle_time' = R(MAX_CYCLE_TIME)]_vars

----------------------------------------------------------------------------
(* The Planner's rest and fuel steps, its pickup and dropoff hours, and    *)
(* the end of its loops.                                                   *)

\* the step appends a stop of the type to rest_stops
Emits(type) ==
    /\ Len(rest_stops') = Len(rest_stops) + 1
    /\ rest_stops'[Len(rest_stops')].type = type

\* the step restores none of the remaining driving, on-duty and cycle times
NothingRestored ==
    /\ RLe(remaining_drive_time', remaining_drive_time)
    /\ RLe(remaining_on_duty_time', remaining_on_duty_time)
    /\ RLe(remaining_cycle_time', remaining_cycle_time)

\* C31: the step that emits a 'rest' stop resets time_since_break and not
\* distance_since_fuel, the step that emits a 'fuel' stop resets
\* distance_since_fuel and not time_since_break, and neither increases the
\* remaining driving, on-duty or cycle time
C31_RestAndFuelFrame ==
    [][/\ Emits("rest") =>
             /\ time_since_break' = R(0)
             /\ distance_since_fuel' = R(0) => distance_since_fuel = R(0)
             /\ NothingRestored
       /\ Emits("fuel") =>
             /\ distance_since_fuel' = R(0)
             /\ time_since_break' = R(0) => time_since_break = R(0)
             /\ NothingRestored]_vars

\* the step charges one hour to the on-duty and the cycle time and emits no stop
ChargesOneHour ==
    /\ remaining_on_duty_time' = RSub(remaining_on_duty_time, R(1))
    /\ remaining_cycle_time' = RSub(remaining_cycle_time, R(1))
    /\ rest_stops' = rest_stops

\* the number of stops of a type in the list
RECURSIVE CountStops(_, _)
CountStops(stops, type) ==
    IF stops = <<>> THEN 0
    ELSE (IF Head(stops).type = type THEN 1 ELSE 0) + CountStops(Tail(stops), type)

\* C32: for a non-empty route one hour is taken from the remaining on-duty and
\* cycle time when the first segment starts and one hour when the function
\* returns, and at no other segment start; neither adds a stop, the list holds
\* only rest, fuel and overnight stops, and at the return the cycle time has lost
\* the hours used before, the two hours, the driving and the fuel stops
C32_PickupAndDropoffHours ==
    /\ [][/\ (pc = "for" /\ pc' = "while" /\ i = 0) => ChargesOneHour
          /\ (pc = "for" /\ pc' = "while" /\ i > 0) =>
                 UNCHANGED <<remaining_on_duty_time, remaining_cycle_time, rest_stops>>
          /\ (pc = "for" /\ pc' = "done" /\ segments # <<>>) => ChargesOneHour]_vars
    /\ [](\A k \in 1..Len(rest_stops) :
              rest_stops[k].type \in {"rest", "fuel", "overnight"})
    /\ []((pc = "done" /\ segments # <<>>) =>
              remaining_cycle_time =
                  RSub(RSub(R(MAX_CYCLE_TIME - current_cycle_hours - 2),
                            RouteTotal(segments, "duration")),
                       RMul(FUEL_STOP_DURATION, R(CountStops(rest_stops, "fuel")))))

\* the Planner has returned the stops of a route of two segments with a fuel stop
C32_Witness ==
    /\ pc = "done"
    /\ Len(segments) = 2
    /\ HasStop("fuel")
    /\ HasStop("rest")

\* C33: when the dropoff hour has been applied and the remaining on-duty time or
\* the remaining cycle time is used up, the returned list ends with an
\* 'overnight' stop
C33_TrailingOvernight ==
    (/\ pc = "done"
     /\ segments # <<>>
     /\ \/ RLe(remaining_on_duty_time, R(0))
        \/ RLe(remaining_cycle_time, R(0))) =>
        /\ rest_stops # <<>>
        /\ rest_stops[Len(rest_stops)].type = "overnight"

\* the function comes to an end, by its return or by an exception
PlannerStops == <>(pc \in {"done", "error"})

\* C34: for every route the loops of calculate_rest_stops come to an end and the
\* function returns: inside the while loop the remaining segment time never
\* grows, and no division by zero is raised
C34_PlannerTerminates ==
    /\ <>(pc = "done")
    /\ [][(pc = "while" /\ pc' = "while") => RLe(segment_time', segment_time)]_vars
    /\ [](pc # "error")

----------------------------------------------------------------------------
(* The event loop of the Builder and the events it inserts while it iterates. *)

\* the number of events the loop has inserted into the list it iterates over
Inserted ==
    Len(SelectSeq(events, LAMBDA e : e.type \in {"reset_break", "mandatory_break"}))

\* C35: the Builder comes to an end on every trip, although its event loop inserts
\* events into the list it iterates over and sorts it again: the pass that inserts
\* an event leaves its while loop, and an iteration that has inserted is followed
\* by one that does not, so that at index i at most i/2 + 1 events were inserted
C35_BuilderTerminates ==
    /\ <>(pc \in {"returned", "raised"})
    /\ [][Len(events') > Len(events) /\ pc \in {"initial", "gap"} => pc' = "stop"]_vars
    /\ [](2 * Inserted <= i + 2)

\* a trip whose log was returned after two insertions
C35_Witness == pc = "returned" /\ Inserted >= 2

----------------------------------------------------------------------------
(* Slicing of the logged intervals at midnight.                              *)

\* the midnights strictly inside the interval from a to b
Midnights(a, b) == DateOf(b - 1) - DateOf(a)

\* the entries logged for the interval from a to b
EntriesWithin(entries, a, b) ==
    {k \in 1..Len(entries) : a <= entries[k].start_time /\ entries[k].end_time <= b}

\* the daily total that counts the time of a status
TotalOf(log, status) ==
    CASE status = "driving" -> log.total_driving_hours
      [] status = "on_duty_not_driving" -> log.total_on_duty_hours
      [] status = "off_duty" -> log.total_off_duty_hours
      [] status = "sleeper_berth" -> log.total_sleeper_berth_hours

\* every log entry ends on the date it starts on, or at 00:00 of the next date
NoEntryCrossesMidnight ==
    \A k \in 1..Len(log_entries) :
        LET e == log_entries[k]
        IN  e.start_time < e.end_time /\ e.end_time <= NextDay(e.start_time)

\* the step that logs an entry adds its duration to the total of its status in the
\* daily log of its start date, marks that day's grid, and leaves the daily logs of
\* the other dates alone
AddedToStartDate ==
    Len(log_entries') = Len(log_entries) + 1 =>
        LET e == log_entries'[Len(log_entries')]
            d == DateOf(e.start_time)
            before == WithDailyLog(daily_logs, d)
        IN  /\ d \in DOMAIN daily_logs'
            /\ \A o \in DOMAIN daily_logs' \ {d} :
                   o \in DOMAIN daily_logs /\ daily_logs'[o] = daily_logs[o]
            /\ TotalOf(daily_logs'[d], e.status)
                   = TotalOf(before[d], e.status) + (e.end_time - e.start_time)
            /\ daily_logs'[d].log_data
                   = update_log_grid(before[d].log_data, e.start_time, e.end_time, e.status)

\* when the loop over an interval is left, the interval has one entry more than it
\* has midnights inside: the drive from the trip start, the time up to an event,
\* the event's own interval
SlicedAtEachMidnight ==
    /\ (pc = "initial" /\ pc' # "initial") =>
           Cardinality(EntriesWithin(log_entries', trip_start_time, event.time))
               = Midnights(trip_start_time, event.time) + 1
    /\ (pc = "gap" /\ pc' = "stop") =>
           Cardinality(EntriesWithin(log_entries', status_start_time, event.time))
               = Midnights(status_start_time, event.time) + 1
    /\ (pc = "stop" /\ pc' = "for" /\ event.duration > 0) =>
           Cardinality(EntriesWithin(log_entries, event.time, StopEnd))
               = Midnights(event.time, StopEnd) + 1

\* C36: no log entry crosses midnight; the duration of an entry is added to the
\* daily log and the grid of its start date only; an interval with k midnights
\* inside is logged as k + 1 entries
C36_DaySlicing ==
    /\ [](NoEntryCrossesMidnight)
    /\ [][AddedToStartDate]_vars
    /\ [][SlicedAtEachMidnight]_vars

----------------------------------------------------------------------------
(* The slots update_log_grid writes.                                         *)

\* the call that has just been made
LastWrite == grid_writes'[Len(grid_writes')]

\* the minute the interval of a call ends at, 1440 for 00:00 of the next date
EndMinute(interval) == IF interval.next_date THEN 1440 ELSE interval.end

\* the grid has its 96 slots, before and after every call
KeepsSlotCount == pc = "grid" => Len(grid) = GridSlots

\* C37 as stated: a call writes the status to the slots whose first minute 15 * k
\* lies in [start, end) and leaves the other slots as they were; the grid keeps
\* its 96 slots
C37_SlotStartInInterval ==
    /\ [][Len(grid_writes') = Len(grid_writes) + 1 =>
            \A k \in 0..(GridSlots - 1) :
                grid'[k + 1] =
                    IF /\ LastWrite.interval.start <= 15 * k
                       /\ 15 * k < EndMinute(LastWrite.interval)
                    THEN LastWrite.status ELSE grid[k + 1]]_vars
    /\ [](KeepsSlotCount)

\* C37: a call writes the status to the slots from the one that holds the start
\* minute up to, and without, the one that holds the end minute, whatever they held
\* before, and leaves the other slots as they were; the grid keeps its 96 slots
C37_SlotsRoundedDown ==
    /\ [][Len(grid_writes') = Len(grid_writes) + 1 =>
            \A k \in 0..(GridSlots - 1) :
                grid'[k + 1] =
                    IF /\ LastWrite.interval.start \div 15 <= k
                       /\ k < EndMinute(LastWrite.interval) \div 15
                    THEN LastWrite.status ELSE grid[k + 1]]_vars
    /\ [](KeepsSlotCount)

\* a second call from 00:10 on has replaced the status the first call wrote to slot 0
C37_Witness ==
    /\ Len(grid_writes) = 2
    /\ grid_writes[1].status = "driving"
    /\ grid_writes[1].interval.start = 0
    /\ grid_writes[2].status = "off_duty"
    /\ grid_writes[2].interval.start = 10
    /\ grid_writes[2].interval.end = 20
    /\ grid[1] = "off_duty"
    /\ grid[2] = "driving"

----------------------------------------------------------------------------
(* The fuel stops the Builder inserts by distance.                           *)

\* the event list as the fuel pass leaves it
AfterFuelPass == pc = "for" /\ i = 0 /\ events # <<>>

\* the fuel events the pass has inserted: those that are no waypoint
InsertedFuel ==
    {k \in 1..Len(events) :
        /\ events[k].type = "fuel"
        /\ \A j \in 1..Len(waypoints) : EventOf(waypoints[j]) # events[k]}

\* the driving between event k and the event after it
GapAfter(ev, k) ==
    LET driving_duration == ev[k + 1].time - (ev[k].time + ev[k].duration)
    IN  IF driving_duration > 0 THEN driving_duration ELSE 0

\* the driving from event k to the next fuel event, or to the last event
RECURSIVE DrivingToNextFuel(_, _)
DrivingToNextFuel(ev, k) ==
    IF k >= Len(ev) THEN 0
    ELSE GapAfter(ev, k)
         + (IF ev[k + 1].type = "fuel" THEN 0 ELSE DrivingToNextFuel(ev, k + 1))

\* an inserted fuel event starts no earlier than the event before it ends and ends
\* no later than the event after it starts
InsideItsGap(k) ==
    /\ k > 1 /\ k < Len(events)
    /\ events[k - 1].time + events[k - 1].duration <= events[k].time
    /\ events[k].time + events[k].duration <= events[k + 1].time

\* C38: after the fuel pass every inserted fuel event lies inside the driving gap
\* that triggered it, and from no fuel event, waypoint or inserted, are more than
\* 1000 miles driven at 55 mph to the next fuel event or to the end of the trip
C38_FuelEveryThousandMiles ==
    AfterFuelPass =>
        /\ \A k \in InsertedFuel : InsideItsGap(k)
        /\ \A k \in 1..Len(events) :
               events[k].type = "fuel" =>
                   DrivingToNextFuel(events, k) * HalfMilesPerTick
                       <= 2 * MAX_DISTANCE_BEFORE_FUEL

----------------------------------------------------------------------------
(* A calculate_route request that fails.                                     *)

\* C39: a calculate_route request that fails after the route data was obtained
\* leaves the waypoints stored for the route as they were before the request
C39_WaypointsKeptOnFailure ==
    [][response' = 500 => waypoint_table' = waypoint_table]_vars

====
